---- MODULE Spec2Model ----
(***************************************************************************)
(* The revision graph engine of alembic/script/revision.py: Revision,      *)
(* RevisionMap, the map builder, the resolver and the two planners.        *)
(*                                                                         *)
(* Revision ids, branch labels and identifiers are strings.  A Revision    *)
(* object is a record; object identity is the position of the object in    *)
(* the table `revs` (the provider's records in the order they are          *)
(* yielded), so that two records with the same id stay distinct objects.   *)
(* The dict _revision_map is the function `map_` from keys (ids and        *)
(* branch labels) to objects.  A raised exception is the name of its       *)
(* class; "" means that nothing was raised.                                *)
(***************************************************************************)
EXTENDS Integers, Sequences, FiniteSets, TLC

VARIABLES generator, built, revs, map_, heads, _real_heads, bases,
          _real_bases, op

vars == <<generator, built, revs, map_, heads, _real_heads, bases,
          _real_bases, op>>

-----------------------------------------------------------------------------
(* Strings and tuples *)

Range(s) == {s[i] : i \in 1..Len(s)}

\* The characters that occur in identifiers, in code point order.
Alphabet == "+-0123456789@ABCDEFGHIJKLMNOPQRSTUVWXYZ_abcdefghijklmnopqrstuvwxyz"

Char(s, i) == SubSeq(s, i, i)

Ord(c) == CHOOSE i \in 1..Len(Alphabet) : SubSeq(Alphabet, i, i) = c

\* a < b for Python strings: at the first position where they differ a has
\* ended or has the smaller character.
StrLess(a, b) ==
    \E i \in 1..Len(b) :
        /\ i <= Len(a) + 1
        /\ SubSeq(a, 1, i - 1) = SubSeq(b, 1, i - 1)
        /\ \/ i = Len(a) + 1
           \/ Ord(Char(a, i)) < Ord(Char(b, i))

\* Every revision id and branch label of the providers below.
Names ==
    {"A", "B", "C", "D", "E", "F", "a", "b", "c", "d", "e", "lbl",
     "abcdef", "abcxyz", "abcdlabel", "a+b", "a-b", "a@b", "m"}

\* The number of names that sort before a name: a table of StrLess.
Rank == [x \in Names |-> Cardinality({y \in Names : StrLess(y, x)})]

\* sorted(S) for a set of names
RECURSIVE sorted(_)
sorted(S) ==
    IF S = {} THEN <<>>
    ELSE <<CHOOSE x \in S : \A y \in S : Rank[x] <= Rank[y]>>
         \o sorted(S \ {CHOOSE x \in S : \A y \in S : Rank[x] <= Rank[y]})

\* x.startswith(p)
startswith(x, p) == Len(p) <= Len(x) /\ SubSeq(x, 1, Len(p)) = p

\* c in s, for a character c
HasChar(s, c) == \E i \in 1..Len(s) : Char(s, i) = c

\* the items of a tuple that satisfy Keep(_), in order
RECURSIVE Filter(_, _)
Filter(s, keep) ==
    IF s = <<>> THEN <<>>
    ELSE (IF Head(s) \in keep THEN <<Head(s)>> ELSE <<>>) \o Filter(Tail(s), keep)

\* reversed() that hands the sequence back in the order it was given
not_reversed(s) == s

reversed(s) == [i \in 1..Len(s) |-> s[Len(s) + 1 - i]]

\* A local variable: Body(_) with the value bound to its parameter.
With(value, Body(_)) == Body(value)

-----------------------------------------------------------------------------
(* class Revision *)

_revision_illegal_chars == {"@", "-", "+"}

\* a constructor that verifies the id before it looks for self-loops
Revision_init_verifying_first(revision, down_revision, dependencies) ==
    IF \E c \in _revision_illegal_chars : HasChar(revision, c)
        THEN "RevisionError"
    ELSE IF down_revision # <<>> /\ revision \in Range(down_revision)
        THEN "LoopDetected"
    ELSE IF revision \in Range(dependencies)
        THEN "DependencyLoopDetected"
    ELSE ""

\* Revision.__init__: the exception it raises, or "".  down_revision,
\* dependencies and branch_labels are given as tuples (util.to_tuple).
Revision_init_raises(revision, down_revision, dependencies) ==
    IF down_revision # <<>> /\ revision \in Range(down_revision)
        THEN "LoopDetected"
    ELSE IF revision \in Range(dependencies)
        THEN "DependencyLoopDetected"
    ELSE IF \E c \in _revision_illegal_chars : HasChar(revision, c)
        THEN "RevisionError"
    ELSE ""

\* The object Revision.__init__ leaves behind.  down_revision and
\* dependencies are kept as tuples: tuple_rev_as_scalar turns the empty
\* tuple into None and util.to_tuple(x, default=()) turns it back.
Revision(revision, down_revision, dependencies, branch_labels) ==
    [revision |-> revision,
     down_revision |-> down_revision,
     dependencies |-> dependencies,
     _orig_branch_labels |-> branch_labels,
     branch_labels |-> Range(branch_labels),
     _resolved_dependencies |-> <<>>,
     _normalized_resolved_dependencies |-> <<>>,
     nextrev |-> {},
     _all_nextrev |-> {}]

\* _versioned_down_revisions that also counts the resolved dependencies
_versioned_down_revisions_with_dependencies(rev) ==
    rev.down_revision \o rev._resolved_dependencies

_versioned_down_revisions(rev) == rev.down_revision

_all_down_revisions(rev) == rev.down_revision \o rev._resolved_dependencies

_normalized_down_revisions(rev) ==
    rev.down_revision \o rev._normalized_resolved_dependencies

is_head(rev) == rev.nextrev = {}

_is_real_head(rev) == rev._all_nextrev = {}

is_base(rev) == rev.down_revision = <<>>

_is_real_base(rev) == rev.down_revision = <<>> /\ rev.dependencies = <<>>

is_branch_point(rev) == Cardinality(rev.nextrev) > 1

_is_real_branch_point(rev) == Cardinality(rev._all_nextrev) > 1

is_merge_point(rev) == Len(_versioned_down_revisions(rev)) > 1

\* add_nextrev that adds to nextrev whatever the kind of the edge
add_nextrev_unconditionally(self, revision) ==
    [self EXCEPT
        !._all_nextrev = @ \cup {revision.revision},
        !.nextrev = @ \cup {revision.revision}]

\* Revision.add_nextrev: self after the call
add_nextrev(self, revision) ==
    [self EXCEPT
        !._all_nextrev = @ \cup {revision.revision},
        !.nextrev = IF self.revision \in Range(_versioned_down_revisions(revision))
                    THEN @ \cup {revision.revision} ELSE @]

-----------------------------------------------------------------------------
(* Graph traversal: RevisionMap._iterate_related_revisions and its callers. *)
(* R is the table of Revision objects, m the dict that is walked, targets   *)
(* a tuple of objects.  fn names the edge selector that the caller passes.  *)

\* The ids fn(rev) returns.  nextrev and _all_nextrev are frozensets: their
\* iteration order is not fixed by the code, sorted order stands for it.
fn_ids(R, fn, rev, targets) ==
    CASE fn = "_versioned_down_revisions" -> _versioned_down_revisions(R[rev])
      [] fn = "_all_down_revisions" -> _all_down_revisions(R[rev])
      [] fn = "_normalized_down_revisions" -> _normalized_down_revisions(R[rev])
      [] fn = "nextrev" -> sorted(R[rev].nextrev)
      [] fn = "_all_nextrev" -> sorted(R[rev]._all_nextrev)
      [] fn = "omit_immediate_dependencies" ->
            sorted(IF rev \notin Range(targets) THEN R[rev]._all_nextrev
                   ELSE R[rev].nextrev)

\* `for rev_id in fn(rev)`: the first failing lookup raises, KeyError for
\* an id that is no key and RevisionError for a key of another revision.
lookup_raises(R, m, ids) ==
    IF \A i \in 1..Len(ids) : ids[i] \in DOMAIN m /\ R[m[ids[i]]].revision = ids[i]
    THEN ""
    ELSE IF ids[CHOOSE i \in 1..Len(ids) :
                   /\ ~(ids[i] \in DOMAIN m /\ R[m[ids[i]]].revision = ids[i])
                   /\ \A j \in 1..(i - 1) :
                         ids[j] \in DOMAIN m /\ R[m[ids[j]]].revision = ids[j]]
            \in DOMAIN m
        THEN "RevisionError"
    ELSE "KeyError"

\* The loop `while todo:` for one target.  st is the local state: the
\* deque todo, the sets seen and per_target, the revisions yielded so far
\* and the exception raised.
RECURSIVE walk(_, _, _, _, _)
walk(R, fn, targets, m, st) ==
    IF st.raised # "" \/ st.todo = <<>> THEN st
    ELSE IF st.todo[Len(st.todo)] \in st.seen
    THEN walk(R, fn, targets, m,
              [st EXCEPT !.todo = SubSeq(st.todo, 1, Len(st.todo) - 1),
                         !.per_target = @ \cup {st.todo[Len(st.todo)]}])
    ELSE With(fn_ids(R, fn, st.todo[Len(st.todo)], targets), LAMBDA ids :
         With(lookup_raises(R, m, ids), LAMBDA raised :
            IF raised # ""
            THEN [st EXCEPT !.raised = raised]
            ELSE walk(R, fn, targets, m,
                      [todo |-> SubSeq(st.todo, 1, Len(st.todo) - 1)
                                    \o [i \in 1..Len(ids) |-> m[ids[i]]],
                       seen |-> st.seen \cup {st.todo[Len(st.todo)]},
                       per_target |-> st.per_target \cup {st.todo[Len(st.todo)]},
                       yielded |-> Append(st.yielded, st.todo[Len(st.todo)]),
                       raised |-> ""])))

\* the loop over the targets, were the target itself counted as an overlap
RECURSIVE iterate_targets_overlapping_itself(_, _, _, _, _, _, _)
iterate_targets_overlapping_itself(R, fn, targets, m, check, i, st) ==
    IF st.raised # "" \/ i > Len(targets) THEN st
    ELSE With(walk(R, fn, targets, m,
                   [st EXCEPT !.todo = <<targets[i]>>, !.per_target = {}]),
              LAMBDA s1 :
            IF s1.raised # "" THEN s1
            ELSE IF check /\ s1.per_target \cap Range(targets) # {}
                THEN [s1 EXCEPT !.raised = "RevisionError"]
            ELSE iterate_targets_overlapping_itself(R, fn, targets, m, check, i + 1, s1))

\* The loop `for target in targets:` from the i-th target on.
RECURSIVE iterate_targets(_, _, _, _, _, _, _)
iterate_targets(R, fn, targets, m, check, i, st) ==
    IF st.raised # "" \/ i > Len(targets) THEN st
    ELSE With(walk(R, fn, targets, m,
                   [st EXCEPT !.todo = <<targets[i]>>, !.per_target = {}]),
              LAMBDA s1 :
            IF s1.raised # "" THEN s1
            ELSE IF check /\ (s1.per_target \cap Range(targets)) \ {targets[i]} # {}
                THEN [s1 EXCEPT !.raised = "RevisionError"]
            ELSE iterate_targets(R, fn, targets, m, check, i + 1, s1))

\* RevisionMap._iterate_related_revisions, run to its end: the exception it
\* raises if any, the set of revisions it yields and their order.
_iterate_related_revisions(R, fn, targets, m, check) ==
    iterate_targets(R, fn, targets, m, check, 1,
                    [todo |-> <<>>, seen |-> {}, per_target |-> {},
                     yielded |-> <<>>, raised |-> ""])

\* _get_descendant_nodes that follows _all_nextrev whatever it is asked
_get_descendant_nodes_and_dependents(R, targets, m, check, omit_immediate_dependencies, include_dependencies) ==
    _iterate_related_revisions(R, "_all_nextrev", targets, m, check)

_get_descendant_nodes(R, targets, m, check, omit_immediate_dependencies, include_dependencies) ==
    _iterate_related_revisions(R,
        IF omit_immediate_dependencies THEN "omit_immediate_dependencies"
        ELSE IF include_dependencies THEN "_all_nextrev"
        ELSE "nextrev",
        targets, m, check)

_get_ancestor_nodes(R, targets, m, check, include_dependencies) ==
    _iterate_related_revisions(R,
        IF include_dependencies THEN "_normalized_down_revisions"
        ELSE "_versioned_down_revisions",
        targets, m, check)

\* the ids of a set (or tuple) of objects
RevIds(R, objs) == {R[i].revision : i \in objs}

RevIdTuple(R, objs) == [i \in 1..Len(objs) |-> R[objs[i]].revision]

-----------------------------------------------------------------------------
(* The map builder *)

\* the objects 1..n of a table, as a tuple
Objects(R) == [i \in 1..Len(R) |-> i]

\* The loop over revision._orig_branch_labels in _map_branch_labels, from
\* the j-th label of one revision on.
RECURSIVE install_branch_labels(_, _, _, _)
install_branch_labels(R, revision, j, m) ==
    IF j > Len(R[revision]._orig_branch_labels) THEN [raised |-> "", map_ |-> m]
    ELSE IF R[revision]._orig_branch_labels[j] \in DOMAIN m
        THEN [raised |-> "RevisionError", map_ |-> m]
    ELSE install_branch_labels(R, revision, j + 1,
                               m @@ (R[revision]._orig_branch_labels[j] :> revision))

\* RevisionMap._map_branch_labels: the exception raised and the dict as the
\* call leaves it (labels installed before a collision stay installed).
RECURSIVE _map_branch_labels(_, _, _)
_map_branch_labels(R, revisions, m) ==
    IF revisions = <<>> THEN [raised |-> "", map_ |-> m]
    ELSE IF R[Head(revisions)].branch_labels = {}
        THEN _map_branch_labels(R, Tail(revisions), m)
    ELSE With(install_branch_labels(R, Head(revisions), 1, m), LAMBDA r :
            IF r.raised # "" THEN r
            ELSE _map_branch_labels(R, Tail(revisions), r.map_))

\* RevisionMap._add_depends_on for a set of objects: map_[dep] raises
\* KeyError for a name that is neither an id nor a label.
_add_depends_on(R, revisions, m) ==
    IF \E i \in revisions : \E dep \in Range(R[i].dependencies) : dep \notin DOMAIN m
    THEN [raised |-> "KeyError", R |-> R]
    ELSE [raised |-> "",
          R |-> [i \in 1..Len(R) |->
                    IF i \in revisions
                    THEN [R[i] EXCEPT !._resolved_dependencies =
                            [j \in 1..Len(R[i].dependencies) |->
                                R[m[R[i].dependencies[j]]].revision]]
                    ELSE R[i]]]

\* down_revision.add_nextrev(rev) for every rev of a set
RECURSIVE add_nextrevs(_, _, _)
add_nextrevs(self, R, S) ==
    IF S = {} THEN self
    ELSE add_nextrevs(add_nextrev(self, R[CHOOSE rev \in S : TRUE]), R,
                      S \ {CHOOSE rev \in S : TRUE})

\* map_.values() in the order of the dict: the object of every id, at the
\* place of the id's first record, then the objects that carry labels.
values_in_order(R, m) ==
    With(Filter(Objects(R), {i \in 1..Len(R) :
                    \A j \in 1..(i - 1) : R[j].revision # R[i].revision}),
         LAMBDA firsts :
            [i \in 1..Len(firsts) |-> m[R[firsts[i]].revision]]
                \o Filter(Objects(R), {i \in 1..Len(R) : R[i].branch_labels # {}}))

\* the first downrev that the loop over map_.values() does not find in map_
first_not_present(R, m) ==
    With(values_in_order(R, m), LAMBDA values :
    With([i \in 1..Len(values) |->
            Filter(_all_down_revisions(R[values[i]]),
                   Range(_all_down_revisions(R[values[i]])) \ DOMAIN m)],
         LAMBDA missing :
            missing[CHOOSE i \in 1..Len(values) :
                        /\ missing[i] # <<>>
                        /\ \A j \in 1..(i - 1) : missing[j] = <<>>][1]))

\* The loop `for rev in map_.values()` of _revision_map: map_[downrev]
\* raises KeyError after the warning; otherwise every down_revision gets its
\* nextrev entries and leaves heads and _real_heads.
wire_nextrevs(R, m) ==
    IF \E k \in DOMAIN m :
          \E downrev \in Range(_all_down_revisions(R[m[k]])) : downrev \notin DOMAIN m
    THEN [raised |-> "KeyError", R |-> R, heads |-> <<>>, _real_heads |-> <<>>,
          warned |-> {<<"is not present", first_not_present(R, m)>>}]
    ELSE [raised |-> "", warned |-> {},
          R |-> [t \in 1..Len(R) |->
                    add_nextrevs(R[t], R,
                        {m[k] : k \in {k \in DOMAIN m :
                            \E downrev \in Range(_all_down_revisions(R[m[k]])) :
                                m[downrev] = t}})],
          heads |-> Filter(Objects(R),
                      {t \in 1..Len(R) :
                          ~ \E k \in DOMAIN m :
                              \E downrev \in Range(_versioned_down_revisions(R[m[k]])) :
                                  m[downrev] = t}),
          _real_heads |-> Filter(Objects(R),
                      {t \in 1..Len(R) :
                          ~ \E k \in DOMAIN m :
                              \E downrev \in Range(_all_down_revisions(R[m[k]])) :
                                  m[downrev] = t})]

\* RevisionMap._normalize_depends_on for a set of objects.  The tuple made
\* from the set normalized_resolved is kept in sorted order.
_normalize_depends_on(R, revisions, m) ==
    With([i \in revisions |-> _get_ancestor_nodes(R, <<i>>, m, FALSE, FALSE)],
         LAMBDA ancestors :
        IF \E i \in revisions : R[i]._resolved_dependencies # <<>>
                                /\ ancestors[i].raised # ""
        THEN [raised |-> ancestors[CHOOSE i \in revisions :
                                      /\ R[i]._resolved_dependencies # <<>>
                                      /\ ancestors[i].raised # ""].raised,
              R |-> R]
        ELSE [raised |-> "",
              R |-> [i \in 1..Len(R) |->
                        IF i \in revisions /\ R[i]._resolved_dependencies # <<>>
                        THEN [R[i] EXCEPT !._normalized_resolved_dependencies =
                                sorted(Range(R[i]._resolved_dependencies) \
                                       UNION {Range(R[rev]._resolved_dependencies) :
                                                  rev \in ancestors[i].seen \ {i}})]
                        ELSE IF i \in revisions
                        THEN [R[i] EXCEPT !._normalized_resolved_dependencies = <<>>]
                        ELSE R[i]]])

\* One total_space of _detect_cycles: the ids reached downwards from the
\* heads and upwards from the bases, or the exception a traversal raises.
total_space(R, rev_map, down_fn, heads_, up_fn, bases_) ==
    With(_iterate_related_revisions(R, down_fn, heads_, rev_map, FALSE), LAMBDA down :
        IF down.raised # "" THEN [raised |-> down.raised, ids |-> {}]
        ELSE With(_iterate_related_revisions(R, up_fn, bases_, rev_map, FALSE),
                  LAMBDA up :
                IF up.raised # "" THEN [raised |-> up.raised, ids |-> {}]
                ELSE [raised |-> "",
                      ids |-> RevIds(R, down.seen) \cap RevIds(R, up.seen)]))

\* RevisionMap._detect_cycles: the exception it raises, or "".  heads_,
\* bases_ and the real ones are tuples of objects.
_detect_cycles(R, rev_map, heads_, bases_, real_heads_, real_bases_) ==
    IF DOMAIN rev_map = {} THEN ""
    ELSE IF heads_ = <<>> \/ bases_ = <<>> THEN "CycleDetected"
    ELSE With(total_space(R, rev_map, "_versioned_down_revisions", heads_,
                          "nextrev", bases_), LAMBDA versioned :
        IF versioned.raised # "" THEN versioned.raised
        ELSE IF DOMAIN rev_map \ versioned.ids # {} THEN "CycleDetected"
        ELSE IF real_heads_ = <<>> \/ real_bases_ = <<>>
            THEN "DependencyCycleDetected"
        ELSE With(total_space(R, rev_map, "_all_down_revisions", real_heads_,
                              "_all_nextrev", real_bases_), LAMBDA full :
            IF full.raised # "" THEN full.raised
            ELSE IF DOMAIN rev_map \ full.ids # {} THEN "DependencyCycleDetected"
            ELSE ""))

\* The walk `while parent ...` of _add_branches: the exception raised
\* (map_[parent.down_revision] of a name that is no key) and the table after it.
\* seen holds the parents the walk has been at: when it comes to one of them
\* again nothing has changed since, and the loop goes round for ever.
RECURSIVE add_branches_up(_, _, _, _, _)
add_branches_up(R, labels, parent, m, seen) ==
    IF _is_real_branch_point(R[parent]) \/ is_merge_point(R[parent])
    THEN [raised |-> "", R |-> R]
    ELSE IF parent \in seen
        THEN [raised |-> "NeverReturns", R |-> R]
    ELSE IF R[parent].down_revision = <<>>
        THEN [raised |-> "",
              R |-> [R EXCEPT ![parent].branch_labels = @ \cup labels]]
    ELSE IF R[parent].down_revision[1] \notin DOMAIN m
        THEN [raised |-> "KeyError",
              R |-> [R EXCEPT ![parent].branch_labels = @ \cup labels]]
    ELSE add_branches_up([R EXCEPT ![parent].branch_labels = @ \cup labels],
                         labels, m[R[parent].down_revision[1]], m,
                         seen \cup {parent})

\* RevisionMap._add_branches for a tuple of objects: the exception raised
\* and the table after it.
RECURSIVE _add_branches(_, _, _)
_add_branches(R, revisions, m) ==
    IF revisions = <<>> THEN [raised |-> "", R |-> R]
    ELSE IF R[Head(revisions)].branch_labels = {}
        THEN _add_branches(R, Tail(revisions), m)
    ELSE With(_get_descendant_nodes(R, <<Head(revisions)>>, m, FALSE, FALSE, FALSE),
              LAMBDA nodes :
        IF nodes.raised # "" THEN [raised |-> nodes.raised, R |-> R]
        ELSE With(add_branches_up(
                      [i \in 1..Len(R) |->
                          IF i \in nodes.seen
                          THEN [R[i] EXCEPT !.branch_labels =
                                    @ \cup R[Head(revisions)].branch_labels]
                          ELSE R[i]],
                      R[Head(revisions)].branch_labels,
                      nodes.yielded[Len(nodes.yielded)], m, {}),
                  LAMBDA up :
                IF up.raised # "" THEN up
                ELSE _add_branches(up.R, Tail(revisions), m)))

\* what the memoized property leaves behind when the build raises before
\* self.heads is assigned
BuildFailed(raised) ==
    [raised |-> raised, revs |-> <<>>, map_ |-> <<>>, heads |-> <<>>,
     _real_heads |-> <<>>, bases |-> <<>>, _real_bases |-> <<>>]

\* the util.warn calls of the first loop of _revision_map, one for every
\* record whose id is in map_ already
present_more_than_once(gen) ==
    {<<"is present more than once", gen[i].revision>> :
        i \in {i \in 1..Len(gen) : \E j \in 1..(i - 1) : gen[j].revision = gen[i].revision}}

\* the outcome of the build, with every warning given on the way to it
Warned(outcome, warned) ==
    [raised |-> outcome.raised, warned |-> warned, revs |-> outcome.revs,
     map_ |-> outcome.map_, heads |-> outcome.heads,
     _real_heads |-> outcome._real_heads, bases |-> outcome.bases,
     _real_bases |-> outcome._real_bases]

\* map_[revision.revision] = revision for every record of the provider:
\* the last record of an id stays.
initial_map(gen) ==
    [k \in {gen[i].revision : i \in 1..Len(gen)} |->
        CHOOSE i \in 1..Len(gen) :
            /\ gen[i].revision = k
            /\ \A j \in 1..Len(gen) : gen[j].revision = k => j <= i]

\* RevisionMap._revision_map: the first access builds the map from the
\* provider's records gen.
_revision_map(gen) ==
    With(present_more_than_once(gen), LAMBDA warned :
    With(Filter(Objects(gen), {i \in 1..Len(gen) : gen[i].branch_labels # {}}),
         LAMBDA has_branch_labels :
    With(_map_branch_labels(gen, has_branch_labels, initial_map(gen)),
         LAMBDA labelled :
    IF labelled.raised # "" THEN Warned(BuildFailed(labelled.raised), warned) ELSE
    With(_add_depends_on(gen, 1..Len(gen), labelled.map_), LAMBDA resolved :
    IF resolved.raised # "" THEN Warned(BuildFailed(resolved.raised), warned) ELSE
    With(wire_nextrevs(resolved.R, labelled.map_), LAMBDA wired :
    IF wired.raised # ""
    THEN Warned(BuildFailed(wired.raised), warned \cup wired.warned) ELSE
    With(_normalize_depends_on(wired.R, 1..Len(gen), labelled.map_),
         LAMBDA normalized :
    IF normalized.raised # "" THEN Warned(BuildFailed(normalized.raised), warned) ELSE
    With(_detect_cycles(normalized.R, initial_map(gen), wired.heads,
             Filter(Objects(gen), {i \in 1..Len(gen) : is_base(gen[i])}),
             wired._real_heads,
             Filter(Objects(gen), {i \in 1..Len(gen) : _is_real_base(gen[i])})),
         LAMBDA cycles :
    IF cycles # "" THEN Warned(BuildFailed(cycles), warned) ELSE
    With(_add_branches(normalized.R, has_branch_labels, labelled.map_),
         LAMBDA branches :
    [raised |-> branches.raised,
     warned |-> warned,
     revs |-> branches.R,
     map_ |-> labelled.map_,
     heads |-> RevIdTuple(gen, wired.heads),
     _real_heads |-> RevIdTuple(gen, wired._real_heads),
     bases |-> RevIdTuple(gen,
                  Filter(Objects(gen), {i \in 1..Len(gen) : is_base(gen[i])})),
     _real_bases |-> RevIdTuple(gen,
                  Filter(Objects(gen), {i \in 1..Len(gen) : _is_real_base(gen[i])}))
    ]))))))))

-----------------------------------------------------------------------------
(* RevisionMap.add_revision *)

\* what a call of add_revision leaves behind: the exception raised, the
\* warnings given, and the map as it is after the call
Added(raised, warned, R, m, heads_, real_heads_, bases_, real_bases_) ==
    [raised |-> raised, warned |-> warned, revs |-> R, map_ |-> m,
     heads |-> heads_, _real_heads |-> real_heads_, bases |-> bases_,
     _real_bases |-> real_bases_]

\* The loop `for downrev in revision._all_down_revisions` of add_revision,
\* from the j-th downrev on: map_[downrev] raises KeyError after the warning.
RECURSIVE add_to_down_revisions(_, _, _, _)
add_to_down_revisions(R, revision, j, m) ==
    IF j > Len(_all_down_revisions(R[revision]))
    THEN [raised |-> "", warned |-> {}, R |-> R]
    ELSE IF _all_down_revisions(R[revision])[j] \notin DOMAIN m
        THEN [raised |-> "KeyError", R |-> R,
              warned |-> {<<"is not present", _all_down_revisions(R[revision])[j]>>}]
    ELSE add_to_down_revisions(
            [R EXCEPT ![m[_all_down_revisions(R[revision])[j]]] =
                            add_nextrev(@, R[revision])],
            revision, j + 1, m)

\* the tuple of heads after `if revision.is_head:` (or _is_real_head), for
\* the down revisions that the new head takes the place of
new_heads(heads_, is_head_, revision, down_revisions) ==
    IF is_head_
    THEN Filter(heads_, Range(heads_) \ (Range(down_revisions) \cup {revision.revision}))
            \o <<revision.revision>>
    ELSE heads_

\* add_revision from `if revision.is_base:` on.  n is the new object in R.
add_revision_edges(self, R, m, n, warned) ==
    With(IF is_base(R[n]) THEN Append(self.bases, R[n].revision) ELSE self.bases,
         LAMBDA bases_ :
    With(IF _is_real_base(R[n]) THEN Append(self._real_bases, R[n].revision)
         ELSE self._real_bases,
         LAMBDA real_bases_ :
    With(add_to_down_revisions(R, n, 1, m), LAMBDA wired :
    IF wired.raised # ""
    THEN Added(wired.raised, warned \cup wired.warned, wired.R, m, self.heads,
               self._real_heads, bases_, real_bases_)
    ELSE
    With(_normalize_depends_on(wired.R, {n}, m), LAMBDA normalized :
    IF normalized.raised # ""
    THEN Added(normalized.raised, warned, normalized.R, m, self.heads,
               self._real_heads, bases_, real_bases_)
    ELSE Added("", warned, normalized.R, m,
               new_heads(self.heads, is_head(normalized.R[n]), normalized.R[n],
                         _versioned_down_revisions(normalized.R[n])),
               new_heads(self._real_heads, _is_real_head(normalized.R[n]),
                         normalized.R[n], _all_down_revisions(normalized.R[n])),
               bases_, real_bases_)))))

\* add_revision from `map_[revision.revision] = revision` on.  The new
\* object is appended to the table of objects; the object it takes the place
\* of stays in the table, where a label or an edge may still lead to it.
add_revision_to_map(self, revision, warned) ==
    With(Len(self.revs) + 1, LAMBDA n :
    With(Append(self.revs, revision), LAMBDA R0 :
    With((revision.revision :> n) @@ self.map_, LAMBDA m0 :
    With(_add_branches(R0, <<n>>, m0), LAMBDA branches :
    IF branches.raised # ""
    THEN Added(branches.raised, warned, branches.R, m0, self.heads,
               self._real_heads, self.bases, self._real_bases)
    ELSE
    With(_map_branch_labels(branches.R, <<n>>, m0), LAMBDA labelled :
    IF labelled.raised # ""
    THEN Added(labelled.raised, warned, branches.R, labelled.map_, self.heads,
               self._real_heads, self.bases, self._real_bases)
    ELSE
    With(_add_depends_on(branches.R, {n}, labelled.map_), LAMBDA resolved :
    IF resolved.raised # ""
    THEN Added(resolved.raised, warned, resolved.R, labelled.map_, self.heads,
               self._real_heads, self.bases, self._real_bases)
    ELSE add_revision_edges(self, resolved.R, labelled.map_, n, warned)))))))

\* the test of _replace and of the presence of the id that add_revision
\* begins with: "warn", "raise" or ""
add_revision_check(self, revision, _replace) ==
    IF ~_replace /\ revision.revision \in DOMAIN self.map_ THEN "warn"
    ELSE IF _replace /\ revision.revision \notin DOMAIN self.map_ THEN "raise"
    ELSE ""

\* RevisionMap.add_revision(revision, _replace) on a built map
add_revision(self, revision, _replace) ==
    With(add_revision_check(self, revision, _replace), LAMBDA check :
    IF check = "raise"
    THEN Added("Exception", {}, self.revs, self.map_, self.heads,
               self._real_heads, self.bases, self._real_bases)
    ELSE add_revision_to_map(self, revision,
            IF check = "warn"
            THEN {<<"is present more than once", revision.revision>>} ELSE {}))

-----------------------------------------------------------------------------
(* Results and identifiers *)

\* What a call leaves behind: the exception raised ("" for none) and the
\* value returned, or whatever was produced before the exception.
Ok(value) == [raised |-> "", value |-> value]

Raise(exception) == [raised |-> exception, value |-> <<>>]

\* the exception classes of the module and their base classes
__bases__ ==
    [RevisionError |-> {},
     RangeNotAncestorError |-> {"RevisionError"},
     MultipleHeads |-> {"RevisionError"},
     ResolutionError |-> {"RevisionError"},
     CycleDetected |-> {"RevisionError"},
     DependencyCycleDetected |-> {"CycleDetected"},
     LoopDetected |-> {"CycleDetected"},
     DependencyLoopDetected |-> {"DependencyCycleDetected", "LoopDetected"}]

\* issubclass(cls, base); KeyError and AssertionError are builtins outside
\* the hierarchy
RECURSIVE issubclass(_, _)
issubclass(cls, base) ==
    \/ cls = base
    \/ /\ cls \in DOMAIN __bases__
       /\ \E b \in __bases__[cls] : issubclass(b, base)

\* raise MultipleHeads(heads, argument): the heads it carries are kept as
\* the value
MultipleHeads(heads_) == [raised |-> "MultipleHeads", value |-> heads_]

\* the rest of a function body after a call that may raise
Try(r, Body(_)) == IF r.raised # "" THEN r ELSE Body(r.value)

\* `tuple(F(x) for x in xs)`: the first exception ends the loop
TryEach(xs, F(_)) ==
    LET RECURSIVE each(_)
        each(rest) ==
            IF rest = <<>> THEN Ok(<<>>)
            ELSE Try(F(Head(rest)), LAMBDA v :
                 Try(each(Tail(rest)), LAMBDA vs : Ok(<<v>> \o vs)))
    IN  each(xs)

\* sum(tuples, ())
RECURSIVE sum(_)
sum(tuples) == IF tuples = <<>> THEN <<>> ELSE Head(tuples) \o sum(Tail(tuples))

\* An identifier argument is a string, a tuple of strings or None.
Str(s) == [t |-> "str", v |-> s]

Tup(x) == [t |-> "tuple", v |-> x]

None == [t |-> "None"]

\* the object None; the Revision objects are 1..Len(revs)
NoneObject == 0

\* s.partition("@"): the position of the first "@" of a string, 0 if none
find(s, c) ==
    IF HasChar(s, c)
    THEN CHOOSE i \in 1..Len(s) :
            Char(s, i) = c /\ \A j \in 1..(i - 1) : Char(s, j) # c
    ELSE 0

\* the RevisionMap as the operations below see it
RevisionMap(R, m, heads_, real_heads_, bases_, real_bases_) ==
    [revs |-> R, map_ |-> m, heads |-> heads_, _real_heads |-> real_heads_,
     bases |-> bases_, _real_bases |-> real_bases_]

-----------------------------------------------------------------------------
(* RevisionMap.topological_sort *)

\* sqlalchemy.util.topological.sort: repeatedly the items of todo, in
\* order, none of whose parents is still to do.
RECURSIVE sort_as_subsets(_, _, _)
sort_as_subsets(edges, todo, out) ==
    IF todo = <<>> THEN Ok(out)
    ELSE IF \A n \in Range(todo) :
               \E e \in edges : e[2] = n /\ e[1] \in Range(todo)
        THEN Raise("CircularDependencyError")
    ELSE sort_as_subsets(edges,
            Filter(todo, {n \in Range(todo) :
                            \E e \in edges : e[2] = n /\ e[1] \in Range(todo)}),
            out \o Filter(todo, {n \in Range(todo) :
                            ~ \E e \in edges : e[2] = n /\ e[1] \in Range(todo)}))

\* topological_sort for a set of objects: the ids in sorted order, layered
\* by the edges from down_revision and from dependencies as declared.
topological_sort(self, revisions) ==
    sort_as_subsets(
        {<<rev, self.revs[child].revision>> :
            <<rev, child>> \in {x \in Names \X revisions :
                x[1] \in Range(self.revs[x[2]].down_revision)
                       \cup Range(self.revs[x[2]].dependencies)}},
        sorted(RevIds(self.revs, revisions)), <<>>)

-----------------------------------------------------------------------------
(* The resolver *)

RECURSIVE _revision_for_ident(_, _, _)
RECURSIVE _resolve_branch(_, _)
RECURSIVE filter_from(_, _, _, _)
RECURSIVE filter_for_lineage(_, _, _, _)
RECURSIVE _shares_lineage(_, _, _, _)
RECURSIVE _resolve_revision_number(_, _)
RECURSIVE get_current_head(_, _)

\* get_current_head that takes the first of several heads
get_current_head_first_of_several(self, branch_label) ==
    Try(IF branch_label # ""
        THEN filter_for_lineage(self, self.heads, Str(branch_label), FALSE)
        ELSE Ok(self.heads), LAMBDA current_heads :
        IF current_heads # <<>> THEN Ok(Str(current_heads[1]))
        ELSE Ok(None))

\* RevisionMap.get_current_head: the head's id as Str, or None.
\* branch_label "" stands for None.
get_current_head(self, branch_label) ==
    Try(IF branch_label # ""
        THEN filter_for_lineage(self, self.heads, Str(branch_label), FALSE)
        ELSE Ok(self.heads), LAMBDA current_heads :
        IF Len(current_heads) > 1 THEN MultipleHeads(current_heads)
        ELSE IF current_heads # <<>> THEN Ok(Str(current_heads[1]))
        ELSE Ok(None))

\* RevisionMap._resolve_revision_number: the tuple resolved_id and the
\* branch label.  A tuple id_ holds strings.
_resolve_revision_number(self, id_) ==
    With(IF id_.t = "str" /\ HasChar(id_.v, "@")
         THEN [branch_label |-> SubSeq(id_.v, 1, find(id_.v, "@") - 1),
               id_ |-> Str(SubSeq(id_.v, find(id_.v, "@") + 1, Len(id_.v)))]
         ELSE [branch_label |-> "", id_ |-> id_], LAMBDA split :
        IF split.id_.t = "str" /\ split.id_.v = "heads"
        THEN IF split.branch_label # ""
             THEN Try(filter_for_lineage(self, self.heads,
                                         Str(split.branch_label), FALSE),
                      LAMBDA filtered :
                        Ok([resolved_id |-> filtered,
                            branch_label |-> split.branch_label]))
             ELSE Ok([resolved_id |-> self._real_heads,
                      branch_label |-> split.branch_label])
        ELSE IF split.id_.t = "str" /\ split.id_.v = "head"
        THEN Try(get_current_head(self, split.branch_label), LAMBDA current_head :
                Ok([resolved_id |-> IF current_head.t = "str" /\ current_head.v # ""
                                    THEN <<current_head.v>> ELSE <<>>,
                    branch_label |-> split.branch_label]))
        ELSE IF (split.id_.t = "str" /\ split.id_.v = "base") \/ split.id_.t = "None"
        THEN Ok([resolved_id |-> <<>>, branch_label |-> split.branch_label])
        ELSE Ok([resolved_id |-> IF split.id_.t = "str" THEN <<split.id_.v>>
                                 ELSE split.id_.v,
                 branch_label |-> split.branch_label]))

\* RevisionMap._resolve_branch
_resolve_branch(self, branch_label) ==
    IF branch_label \in DOMAIN self.map_ THEN Ok(self.map_[branch_label])
    ELSE With(_revision_for_ident(self, Str(branch_label), ""), LAMBDA r :
            IF r.raised = "ResolutionError" THEN Raise("ResolutionError") ELSE r)

\* The partial lookup of _revision_for_ident: the keys of at least four
\* characters that start with resolved_id, in sorted order.
partial_lookup(self, resolved_id) ==
    sorted({x \in DOMAIN self.map_ : Len(x) > 3 /\ startswith(x, resolved_id)})

\* RevisionMap._revision_for_ident: resolved_id is a string or the empty
\* tuple, check_branch "" stands for None.  The value is an object.
_revision_for_ident(self, resolved_id, check_branch) ==
    Try(IF check_branch # "" THEN _resolve_branch(self, check_branch)
        ELSE Ok(NoneObject), LAMBDA branch_rev :
    Try(IF resolved_id.t # "str" THEN Ok(NoneObject)
        ELSE IF resolved_id.v \in DOMAIN self.map_
            THEN Ok(self.map_[resolved_id.v])
        ELSE Try(IF branch_rev # NoneObject
                 THEN filter_for_lineage(self, partial_lookup(self, resolved_id.v),
                                         Str(check_branch), FALSE)
                 ELSE Ok(partial_lookup(self, resolved_id.v)), LAMBDA revs_ :
                IF revs_ = <<>> THEN Raise("ResolutionError")
                ELSE IF Len(revs_) > 1 THEN Raise("ResolutionError")
                ELSE Ok(self.map_[revs_[1]])), LAMBDA revision :
        IF check_branch # "" /\ revision # NoneObject
        THEN Try(_shares_lineage(self, self.revs[revision].revision,
                                 <<self.revs[branch_rev].revision>>, FALSE),
                 LAMBDA shares :
                    IF ~shares THEN Raise("ResolutionError") ELSE Ok(revision))
        ELSE Ok(revision)))

\* the list comprehension of filter_for_lineage, from the i-th target on
filter_from(self, targets, shares, include_dependencies) ==
    IF targets = <<>> THEN Ok(<<>>)
    ELSE Try(_shares_lineage(self, Head(targets), shares, include_dependencies),
             LAMBDA keep :
         Try(filter_from(self, Tail(targets), shares, include_dependencies),
             LAMBDA rest :
                Ok((IF keep THEN <<Head(targets)>> ELSE <<>>) \o rest)))

\* RevisionMap.filter_for_lineage: targets is a tuple of ids or keys
filter_for_lineage(self, targets, check_against, include_dependencies) ==
    Try(_resolve_revision_number(self, check_against), LAMBDA r :
        filter_from(self, targets,
            (IF r.branch_label # "" THEN <<r.branch_label>> ELSE <<>>)
                \o r.resolved_id,
            include_dependencies))

\* _shares_lineage that follows the dependencies whatever it is asked
_shares_lineage_with_dependencies(self, target, test_against_revs, include_dependencies) ==
    IF test_against_revs = <<>> THEN Ok(TRUE)
    ELSE
    Try(_revision_for_ident(self, Str(target), ""), LAMBDA target_ :
    Try(TryEach(test_against_revs,
                LAMBDA test_against_rev :
                    _revision_for_ident(self, Str(test_against_rev), "")),
        LAMBDA tests :
    With(_get_descendant_nodes(self.revs, <<target_>>, self.map_, FALSE, FALSE,
                               TRUE), LAMBDA descendants :
    IF descendants.raised # "" THEN Raise(descendants.raised) ELSE
    With(_get_ancestor_nodes(self.revs, <<target_>>, self.map_, FALSE, TRUE),
         LAMBDA ancestors :
    IF ancestors.raised # "" THEN Raise(ancestors.raised) ELSE
    Ok((descendants.seen \cup ancestors.seen) \cap Range(tests) # {})))))

\* RevisionMap._shares_lineage: target is an id or key, test_against_revs
\* a tuple of ids or keys.
_shares_lineage(self, target, test_against_revs, include_dependencies) ==
    IF test_against_revs = <<>> THEN Ok(TRUE)
    ELSE
    Try(_revision_for_ident(self, Str(target), ""), LAMBDA target_ :
    Try(TryEach(test_against_revs,
                LAMBDA test_against_rev :
                    _revision_for_ident(self, Str(test_against_rev), "")),
        LAMBDA tests :
    With(_get_descendant_nodes(self.revs, <<target_>>, self.map_, FALSE, FALSE,
                               include_dependencies), LAMBDA descendants :
    IF descendants.raised # "" THEN Raise(descendants.raised) ELSE
    With(_get_ancestor_nodes(self.revs, <<target_>>, self.map_, FALSE,
                             include_dependencies), LAMBDA ancestors :
    IF ancestors.raised # "" THEN Raise(ancestors.raised) ELSE
    Ok((descendants.seen \cup ancestors.seen) \cap Range(tests) # {})))))

\* RevisionMap.get_revision: the object, NoneObject for None
get_revision(self, id_) ==
    Try(_resolve_revision_number(self, id_), LAMBDA r :
        IF Len(r.resolved_id) > 1 THEN MultipleHeads(r.resolved_id)
        ELSE _revision_for_ident(self,
                IF r.resolved_id # <<>> THEN Str(r.resolved_id[1]) ELSE Tup(<<>>),
                r.branch_label))

\* RevisionMap.get_revisions for one identifier that is not a collection
\* and not a negative number
get_revisions_of(self, id_) ==
    Try(_resolve_revision_number(self, id_), LAMBDA r :
        TryEach(r.resolved_id,
                LAMBDA rev_id : _revision_for_ident(self, Str(rev_id), r.branch_label)))

\* RevisionMap.get_revisions: the tuple of objects
get_revisions(self, id_) ==
    IF id_.t = "tuple"
    THEN Try(TryEach(id_.v, LAMBDA id_elem : get_revisions_of(self, Str(id_elem))),
             LAMBDA parts :
                Ok(sum(parts)))
    ELSE get_revisions_of(self, id_)

-----------------------------------------------------------------------------
(* Relative targets: +N, -N, symbol+N, symbol-N, with or without branch@ *)

WordChars == "0123456789ABCDEFGHIJKLMNOPQRSTUVWXYZ_abcdefghijklmnopqrstuvwxyz"

Digits == "0123456789"

\* how many characters of s, from the i-th on, are among chars
RECURSIVE run(_, _, _)
run(s, i, chars) ==
    IF i <= Len(s) /\ HasChar(chars, Char(s, i)) THEN 1 + run(s, i + 1, chars)
    ELSE 0

\* int(d) for a string of digits
RECURSIVE int(_)
int(d) ==
    IF Len(d) = 0 THEN 0
    ELSE 10 * int(SubSeq(d, 1, Len(d) - 1)) + (find(Digits, Char(d, Len(d))) - 1)

\* (\w+)?((?:\+|-)\d+) matched at the start of s: the symbol ("" for None)
\* and int() of the relative part.  The symbol is the longest run of word
\* characters, for the character after it has to be a sign.
symbol_relative(s) ==
    With(run(s, 1, WordChars), LAMBDA k :
        IF k + 2 <= Len(s) /\ Char(s, k + 1) \in {"+", "-"}
                          /\ HasChar(Digits, Char(s, k + 2))
        THEN [matched |-> TRUE, branch_label |-> "", symbol |-> SubSeq(s, 1, k),
              relative |->
                (IF Char(s, k + 1) = "-" THEN -1 ELSE 1)
                    * int(SubSeq(s, k + 2, k + 1 + run(s, k + 2, Digits)))]
        ELSE [matched |-> FALSE, branch_label |-> "", symbol |-> "", relative |-> 0])

\* _relative_destination.match(target).groups(), for a target with at most
\* one "@": the branch label and the symbol ("" for None) and int(relative)
_relative_destination(target) ==
    IF find(target, "@") > 1
        /\ symbol_relative(SubSeq(target, find(target, "@") + 1, Len(target))).matched
    THEN [symbol_relative(SubSeq(target, find(target, "@") + 1, Len(target)))
            EXCEPT !.branch_label = SubSeq(target, 1, find(target, "@") - 1)]
    ELSE symbol_relative(target)

\* an argument that is a Revision object
Obj(rev) == [t |-> "Revision", v |-> rev]

\* the result of get_revision as an argument: an object or None
ObjOrNone(rev) == IF rev = NoneObject THEN None ELSE Obj(rev)

\* The loop of walk_down for the steps that remain; start is an object or
\* NoneObject.
RECURSIVE walk_down_steps(_, _, _)
walk_down_steps(self, start, steps) ==
    IF steps = 0 THEN Ok(start)
    ELSE IF start = NoneObject THEN Raise("AssertionError")
    ELSE Try(get_revisions(self, Tup(self.revs[start].down_revision)),
             LAMBDA children :
                IF Len(children) = 0 THEN Ok(NoneObject)
                ELSE IF Len(children) > 1 THEN Raise("RevisionError")
                ELSE walk_down_steps(self, children[1], steps - 1))

\* RevisionMap.walk_down(start, steps): the object reached, or NoneObject
walk_down(self, start, steps) ==
    IF steps > 0 \/ start.t = "None" THEN Raise("AssertionError")
    ELSE IF start.t = "str"
    THEN Try(get_revision(self, start), LAMBDA rev :
                walk_down_steps(self, rev, -steps))
    ELSE walk_down_steps(self, start.v, -steps)

\* the revisions of _revision_map.values() whose down_revision is None, one
\* for every key that leads to them; the keys are taken in sorted order
values_without_down(self) ==
    Filter([i \in 1..Cardinality(DOMAIN self.map_) |->
                self.map_[sorted(DOMAIN self.map_)[i]]],
           {rev \in 1..Len(self.revs) : self.revs[rev].down_revision = <<>>})

\* The loop of walk_up for the steps that remain; start is an object or
\* NoneObject, branch_label is "" for None.
RECURSIVE walk_up_steps(_, _, _, _)
walk_up_steps(self, start, steps, branch_label) ==
    IF steps = 0 THEN Ok(start)
    ELSE Try(IF start = NoneObject THEN Ok(values_without_down(self))
             ELSE get_revisions(self, Tup(sorted(self.revs[start].nextrev))),
             LAMBDA candidates :
         With(Filter(candidates,
                     {rev \in Range(candidates) :
                        branch_label = "" \/ branch_label \in self.revs[rev].branch_labels}),
              LAMBDA children :
                IF Len(children) = 0 THEN Ok(NoneObject)
                ELSE IF Len(children) > 1 THEN Raise("RevisionError")
                ELSE walk_up_steps(self, children[1], steps - 1, branch_label)))

\* RevisionMap.walk_up(start, steps, branch_label)
walk_up(self, start, steps, branch_label) ==
    IF steps < 0 THEN Raise("AssertionError")
    ELSE IF start.t = "str"
    THEN Try(get_revision(self, start), LAMBDA rev :
                walk_up_steps(self, rev, steps, branch_label))
    ELSE walk_up_steps(self, IF start.t = "None" THEN NoneObject ELSE start.v,
                       steps, branch_label)

\* util.to_tuple(current_revisions)[0] as _parse_downgrade_target takes it:
\* None has no items and the empty tuple has no first one
first_current_revision(current_revisions) ==
    IF current_revisions.t = "None" THEN Raise("TypeError")
    ELSE IF current_revisions.t = "str" THEN Ok(current_revisions)
    ELSE IF current_revisions.v = <<>> THEN Raise("IndexError")
    ELSE Ok(Str(current_revisions.v[1]))

\* The branch `if match:` of _parse_upgrade_target, with util.to_tuple and
\* the assertion on the targets that follow the call.
upgrade_to_relative(self, current_revisions, match) ==
    IF match.relative > 0
    THEN IF match.symbol = ""
         THEN IF current_revisions.t = "None" THEN Raise("TypeError")
              ELSE IF current_revisions.t = "tuple" /\ Len(current_revisions.v) # 1
                  THEN Raise("AssertionError")
              ELSE Try(first_current_revision(current_revisions), LAMBDA start :
                   Try(walk_up(self, start, match.relative, match.branch_label),
                       LAMBDA rev :
                        IF rev = NoneObject THEN Raise("RevisionError")
                        ELSE Ok(<<rev>>)))
         ELSE Try(get_revision(self, Str(match.symbol)), LAMBDA start :
              Try(walk_up(self, ObjOrNone(start), match.relative, match.branch_label),
                  LAMBDA rev :
                    IF rev = NoneObject THEN Raise("AssertionError")
                    ELSE Ok(<<rev>>)))
    ELSE IF match.symbol = "" THEN Raise("RevisionError")
    ELSE Try(get_revision(self,
                Str(IF match.branch_label = "" THEN match.symbol
                    ELSE match.branch_label \o "@" \o match.symbol)),
             LAMBDA start :
         Try(walk_down(self, ObjOrNone(start), match.relative), LAMBDA rev :
            IF rev = NoneObject THEN Raise("AssertionError") ELSE Ok(<<rev>>)))

\* The branch `if match:` of _parse_downgrade_target
downgrade_to_relative(self, current_revisions, match) ==
    IF match.relative >= 0
    THEN IF match.symbol = "" THEN Raise("RevisionError")
         ELSE Try(walk_up(self, Str(match.symbol), match.relative,
                          match.branch_label), LAMBDA rev :
                IF rev = NoneObject THEN Raise("RevisionError")
                ELSE Ok([branch_label |-> match.branch_label,
                         target_revision |-> rev]))
    ELSE Try(IF match.symbol = "" THEN first_current_revision(current_revisions)
             ELSE Ok(Str(match.symbol)), LAMBDA symbol :
         Try(walk_down(self, symbol, match.relative), LAMBDA rev :
            IF rev = NoneObject THEN Raise("RevisionError")
            ELSE Ok([branch_label |-> match.branch_label,
                     target_revision |-> rev])))

-----------------------------------------------------------------------------
(* The planners *)

\* util.to_tuple(self._parse_upgrade_target(current_revisions, target)) with
\* the two assertions that follow it: the tuple of target objects.
_parse_upgrade_target(self, current_revisions, target) ==
    IF target.t = "None" THEN Raise("AssertionError")
    ELSE IF target.t = "str" /\ _relative_destination(target.v).matched
    THEN upgrade_to_relative(self, current_revisions,
                             _relative_destination(target.v))
    ELSE IF target.t = "str" /\ HasChar(target.v, "@")
    THEN Try(get_revision(self, target), LAMBDA rev :
            IF rev = NoneObject THEN Raise("AssertionError") ELSE Ok(<<rev>>))
    ELSE get_revisions(self, target)

\* The named-base block of _iterate_revisions_upgrade: for lower of the
\* form branch@..., the targets that carry the branch label.
targets_on_branch(self, lower, targets) ==
    IF lower.t = "str" /\ HasChar(lower.v, "@")
    THEN Try(get_revision(self, Str(SubSeq(lower.v, 1, find(lower.v, "@") - 1))),
             LAMBDA branch_rev :
            IF branch_rev # NoneObject
               /\ self.revs[branch_rev].revision
                      = SubSeq(lower.v, 1, find(lower.v, "@") - 1)
            THEN IF Cardinality(self.revs[branch_rev].branch_labels) # 1
                 THEN Raise("AssertionError")
                 ELSE Ok(Filter(targets,
                        {need \in Range(targets) :
                            self.revs[branch_rev].branch_labels
                                \subseteq self.revs[need].branch_labels}))
            ELSE Ok(Filter(targets,
                        {need \in Range(targets) :
                            SubSeq(lower.v, 1, find(lower.v, "@") - 1)
                                \in self.revs[need].branch_labels})))
    ELSE Ok(targets)

\* set(traversal).union(set(targets)) for a traversal in check mode
node_set(traversal, targets) ==
    IF traversal.raised # "" THEN Raise(traversal.raised)
    ELSE Ok(traversal.seen \cup Range(targets))

\* the same loop, collecting each revision in front of the earlier ones
RECURSIVE yield_revisions_prepending(_, _, _)
yield_revisions_prepending(self, nodes, yielded) ==
    IF nodes = <<>> THEN Ok(yielded)
    ELSE With(get_revision(self, Str(Head(nodes))), LAMBDA r :
            IF r.raised # "" THEN [raised |-> r.raised, value |-> yielded]
            ELSE yield_revisions_prepending(self, Tail(nodes),
                                            <<r.value>> \o yielded))

\* `for node in ...: yield self.get_revision(node)`: the revisions yielded
\* before the first exception, and the exception
RECURSIVE yield_revisions(_, _, _)
yield_revisions(self, nodes, yielded) ==
    IF nodes = <<>> THEN Ok(yielded)
    ELSE With(get_revision(self, Str(Head(nodes))), LAMBDA r :
            IF r.raised # "" THEN [raised |-> r.raised, value |-> yielded]
            ELSE yield_revisions(self, Tail(nodes), Append(yielded, r.value)))

\* RevisionMap._iterate_revisions_upgrade, consumed to its end: the
\* exception raised and the tuple of objects yielded.
_iterate_revisions_upgrade(self, upper, lower, inclusive, implicit_base) ==
    Try(_parse_upgrade_target(self, lower, upper), LAMBDA parsed :
    Try(targets_on_branch(self, lower, parsed), LAMBDA targets :
    Try(node_set(_get_ancestor_nodes(self.revs, targets, self.map_, TRUE, TRUE),
                 targets), LAMBDA required_node_set :
    Try(get_revisions(self, lower), LAMBDA current_revisions :
    Try(node_set(_get_ancestor_nodes(self.revs, current_revisions, self.map_,
                                     TRUE, TRUE),
                 current_revisions), LAMBDA current_node_set :
    Try(IF current_revisions # <<>> /\ ~implicit_base
        THEN node_set(_get_descendant_nodes(self.revs, current_revisions,
                                            self.map_, TRUE, FALSE, FALSE), <<>>)
        ELSE Ok(1..Len(self.revs)), LAMBDA lower_descendents :
    Try(topological_sort(self,
            ((required_node_set \ current_node_set)
                \cup (IF inclusive THEN Range(current_revisions) ELSE {}))
            \cap lower_descendents), LAMBDA sorted_ :
    yield_revisions(self, reversed(sorted_), <<>>))))))))

\* RevisionMap._parse_downgrade_target: the branch label ("" for None) and
\* the target object.
_parse_downgrade_target(self, current_revisions, target) ==
    IF target.t = "None"
    THEN Ok([branch_label |-> "", target_revision |-> NoneObject])
    ELSE IF target.t # "str" THEN Raise("AssertionError")
    ELSE IF _relative_destination(target.v).matched
    THEN downgrade_to_relative(self, current_revisions,
                               _relative_destination(target.v))
    ELSE IF HasChar(target.v, "@")
    THEN Try(get_revision(self,
                 Str(SubSeq(target.v, find(target.v, "@") + 1, Len(target.v)))),
             LAMBDA rev :
                Ok([branch_label |-> SubSeq(target.v, 1, find(target.v, "@") - 1),
                    target_revision |-> rev]))
    ELSE Try(get_revision(self, target), LAMBDA rev :
                Ok([branch_label |-> "", target_revision |-> rev]))

\* candidates to drop that take the target itself whatever `inclusive` is
downgrade_roots_with_target(self, target_revision, inclusive) ==
    IF target_revision = NoneObject
    THEN Ok(Filter([i \in 1..Cardinality(DOMAIN self.map_) |->
                        self.map_[sorted(DOMAIN self.map_)[i]]],
                   {rev \in 1..Len(self.revs) :
                        self.revs[rev].down_revision = <<>>}))
    ELSE Ok(<<target_revision>>)

\* The candidates to drop of _iterate_revisions_downgrade.  The values of
\* the dict are taken in the sorted order of its keys.
downgrade_roots(self, target_revision, inclusive) ==
    IF target_revision = NoneObject
    THEN Ok(Filter([i \in 1..Cardinality(DOMAIN self.map_) |->
                        self.map_[sorted(DOMAIN self.map_)[i]]],
                   {rev \in 1..Len(self.revs) :
                        self.revs[rev].down_revision = <<>>}))
    ELSE IF inclusive THEN Ok(<<target_revision>>)
    ELSE get_revisions(self, Tup(sorted(self.revs[target_revision].nextrev)))

\* `if branch_label and len(roots) > 1`: the roots among the versioned
\* ancestors of the branch
filter_roots(self, branch_label, roots) ==
    IF branch_label # "" /\ Len(roots) > 1
    THEN Try(_resolve_branch(self, branch_label), LAMBDA branch_rev :
         Try(node_set(_get_ancestor_nodes(self.revs, <<branch_rev>>, self.map_,
                                          FALSE, FALSE), <<>>),
             LAMBDA ancestors :
            get_revisions(self,
                Tup(sorted(RevIds(self.revs, Range(roots))
                           \cap RevIds(self.revs, ancestors))))))
    ELSE Ok(roots)

\* RevisionMap._drop_inclusive: the tuple of objects returned
_drop_inclusive(self, branch_revision, upper, implicit_base) ==
    Try(node_set(_get_descendant_nodes(self.revs, branch_revision, self.map_,
                                       FALSE, FALSE, TRUE), <<>>),
        LAMBDA drop_revisions :
    Try(get_revisions(self, upper), LAMBDA upper_revisions :
    Try(node_set(_get_ancestor_nodes(self.revs, upper_revisions, self.map_,
                                     FALSE, TRUE), <<>>),
        LAMBDA active_revisions :
    Try(IF implicit_base
        THEN node_set(_get_ancestor_nodes(self.revs, branch_revision, self.map_,
                                          FALSE, TRUE), <<>>)
        ELSE Ok(1..Len(self.revs)), LAMBDA below :
    IF (drop_revisions \cap active_revisions)
           \cup (IF implicit_base THEN active_revisions \ below ELSE {}) = {}
    THEN Raise("RangeNotAncestorError")
    ELSE Try(topological_sort(self,
                (drop_revisions \cap active_revisions)
                    \cup (IF implicit_base THEN active_revisions \ below ELSE {})),
             LAMBDA sorted_ :
                get_revisions(self, Tup(reversed(sorted_))))))))

\* RevisionMap._iterate_revisions_downgrade, consumed to its end: the
\* exception raised and the tuple of objects yielded.
_iterate_revisions_downgrade(self, upper, target, inclusive, implicit_base) ==
    Try(_parse_downgrade_target(self, upper, target), LAMBDA parsed :
    Try(downgrade_roots(self, parsed.target_revision, inclusive), LAMBDA all_roots :
    Try(filter_roots(self, parsed.branch_label, all_roots), LAMBDA roots :
        IF Len(roots) = 0 THEN Raise("AssertionError")
        ELSE _drop_inclusive(self, roots, upper, implicit_base))))

\* RevisionMap.iterate_revisions
iterate_revisions(self, upper, lower, implicit_base, inclusive, select_for_downgrade) ==
    IF select_for_downgrade
    THEN _iterate_revisions_downgrade(self, upper, lower, inclusive, implicit_base)
    ELSE _iterate_revisions_upgrade(self, upper, lower, inclusive, implicit_base)

-----------------------------------------------------------------------------
(* checkout_revisions of revision-maps.py.  revision_map is a dict from an    *)
(* id to its Revision object, here a function from ids to records.  The    *)
(* iteration order of a set or frozenset of strings is not fixed, so what   *)
(* is computed by iterating one is the set of the results of every order.   *)

\* direct_dependencies that leaves out script.dependencies
direct_dependencies_of_down_revision(script) == script.down_revision

\* the ids a script names: down_revision, then dependencies
direct_dependencies(script) == script.down_revision \o script.dependencies

\* the ids that all_dependencies yields, as a set
RECURSIVE all_dependencies(_, _)
all_dependencies(revision_map, script) ==
    Range(direct_dependencies(script))
        \cup UNION {all_dependencies(revision_map, revision_map[dependency]) :
                        dependency \in Range(direct_dependencies(script))}

required_nodes(revision_map, scripts) ==
    UNION {{scripts[i].revision} \cup all_dependencies(revision_map, scripts[i]) :
                i \in 1..Len(scripts)}

\* the lists that may have been yielded once the loop over revisions is
\* done, when yielded had been yielded before it (visited[x] is true
\* exactly for the ids x yielded)
RECURSIVE topological_sort_inner(_, _, _)
topological_sort_inner(yielded, dependencies, revisions) ==
    IF revisions = {} THEN {yielded}
    ELSE UNION {UNION {topological_sort_inner(
                            IF revision \in Range(y) THEN y ELSE Append(y, revision),
                            dependencies, revisions \ {revision}) :
                        y \in topological_sort_inner(yielded, dependencies,
                                                     dependencies[revision])} :
                    revision \in revisions}

\* topological_sort(revision_map, revisions) of revision-maps.py: the lists
\* it may return
topological_sort_in(revision_map, revisions) ==
    topological_sort_inner(<<>>,
        [revision \in revisions |->
            Range(direct_dependencies(revision_map[revision])) \cap revisions],
        revisions)

\* the CheckoutMigration objects that checkout_revisions may return
checkout_revisions(revision_map, current_heads, target_heads) ==
    With(required_nodes(revision_map, current_heads), LAMBDA current :
    With(required_nodes(revision_map, target_heads), LAMBDA target :
        {[downgrade_order |-> [i \in 1..Len(d) |-> revision_map[reversed(d)[i]]],
          upgrade_order |-> [i \in 1..Len(u) |-> revision_map[u[i]]]] :
            <<d, u>> \in topological_sort_in(revision_map, current \ target)
                            \X topological_sort_in(revision_map, target \ current)}))

-----------------------------------------------------------------------------
(* Providers *)

\* the longest down_revision tuple and the longest dependencies tuple of a
\* generated record
MaxDown == 2

MaxDeps == 1

\* the tuples, in sorted order, of at most n names of S
Tuples(S, n) == {sorted(T) : T \in {T \in SUBSET S : Cardinality(T) <= n}}

\* the Revision objects with the given id that the constructor accepts
Records(id, names, labels) ==
    {Revision(id, d, p, l) :
        <<d, p, l>> \in {x \in Tuples(names, MaxDown) \X Tuples(names, MaxDeps) \X labels :
                            Revision_init_raises(id, x[1], x[2]) = ""}}

\* the provider outputs with one record per id of the tuple ids
RECURSIVE Providers(_, _, _)
Providers(ids, names, labels) ==
    IF ids = <<>> THEN {<<>>}
    ELSE {<<r>> \o rest : r \in Records(Head(ids), names, labels),
                          rest \in Providers(Tail(ids), names, labels)}

\* the provider of the scenarios:
\* A <- B <- C, B <- D, E <- F, D depends on F
ScenarioProvider ==
    <<Revision("A", <<>>, <<>>, <<>>),
      Revision("B", <<"A">>, <<>>, <<>>),
      Revision("C", <<"B">>, <<>>, <<>>),
      Revision("D", <<"B">>, <<"F">>, <<>>),
      Revision("E", <<>>, <<>>, <<>>),
      Revision("F", <<"E">>, <<>>, <<>>)>>

\* a cycle of down_revision that hangs between a base and a head:
\* a <- b <- c <- d, and b is also down from c
CycleProvider ==
    <<Revision("a", <<>>, <<>>, <<>>),
      Revision("b", <<"a", "c">>, <<>>, <<>>),
      Revision("c", <<"b">>, <<>>, <<>>),
      Revision("d", <<"c">>, <<>>, <<>>)>>

\* the same cycle, with b and c both depending on a second root e
CycleDependencyProvider ==
    <<Revision("a", <<>>, <<>>, <<>>),
      Revision("b", <<"a", "c">>, <<"e">>, <<>>),
      Revision("c", <<"b">>, <<"e">>, <<>>),
      Revision("d", <<"c">>, <<>>, <<>>),
      Revision("e", <<>>, <<>>, <<>>)>>

\* a dependency declared by branch label: a depends on "lbl", the label of b
LabelDependencyProvider ==
    <<Revision("a", <<>>, <<"lbl">>, <<>>),
      Revision("b", <<>>, <<>>, <<"lbl">>)>>

\* the ids of a provider's records
ProviderIds(gen) == {gen[i].revision : i \in 1..Len(gen)}

\* the most ids in a tuple identifier
MaxTargets == 2

\* the longest prefix of a key that is asked for
MaxQuery == 6

\* The absolute identifiers a caller passes for a provider: an id, a tuple
\* of ids, or one of the symbols given.
Identifiers(gen, symbols) ==
    {Str(x) : x \in ProviderIds(gen) \cup symbols}
        \cup {Tup(sorted(T)) : T \in {T \in SUBSET ProviderIds(gen) :
                                        1 < Cardinality(T) /\ Cardinality(T) <= MaxTargets}}

-----------------------------------------------------------------------------
(* The state machine: a command constructs the RevisionMap over a provider, *)
(* its first access to _revision_map builds the map, and it makes one call. *)

Unbuilt(gen) ==
    /\ generator = gen
    /\ built = "unbuilt"
    /\ revs = <<>>
    /\ map_ = <<>>
    /\ heads = <<>>
    /\ _real_heads = <<>>
    /\ bases = <<>>
    /\ _real_bases = <<>>
    /\ op = [name |-> "__init__"]

\* the first access to RevisionMap._revision_map (a memoized property)
Build ==
    /\ built = "unbuilt"
    /\ With(_revision_map(generator), LAMBDA b :
           /\ built' = IF b.raised = "" THEN "built" ELSE b.raised
           /\ revs' = b.revs
           /\ map_' = b.map_
           /\ heads' = b.heads
           /\ _real_heads' = b._real_heads
           /\ bases' = b.bases
           /\ _real_bases' = b._real_bases
           /\ op' = [name |-> "_revision_map", raised |-> b.raised,
                     warned |-> b.warned])
    /\ UNCHANGED generator

\* the built map of the current state
Self == RevisionMap(revs, map_, heads, _real_heads, bases, _real_bases)

\* iterate_revisions(upper, lower, implicit_base, inclusive), consumed
Upgrade ==
    /\ built = "built"
    /\ op.name = "_revision_map"
    /\ \E upper \in Identifiers(generator, {"heads"}),
          lower \in Identifiers(generator, {"base"}),
          inclusive \in BOOLEAN, implicit_base \in BOOLEAN :
            With(iterate_revisions(Self, upper, lower, implicit_base, inclusive,
                                   FALSE), LAMBDA r :
                op' = [name |-> "upgrade", upper |-> upper, lower |-> lower,
                       inclusive |-> inclusive, implicit_base |-> implicit_base,
                       raised |-> r.raised, value |-> r.value])
    /\ UNCHANGED <<generator, built, revs, map_, heads, _real_heads, bases,
                   _real_bases>>

\* iterate_revisions(upper, target, implicit_base, inclusive,
\* select_for_downgrade=True), consumed
Downgrade ==
    /\ built = "built"
    /\ op.name = "_revision_map"
    /\ \E upper \in Identifiers(generator, {"heads"}),
          target \in {Str(x) : x \in ProviderIds(generator) \cup {"base"}},
          inclusive \in BOOLEAN, implicit_base \in BOOLEAN :
            With(iterate_revisions(Self, upper, target, implicit_base, inclusive,
                                   TRUE), LAMBDA r :
                op' = [name |-> "downgrade", upper |-> upper, lower |-> target,
                       inclusive |-> inclusive, implicit_base |-> implicit_base,
                       raised |-> r.raised, value |-> r.value])
    /\ UNCHANGED <<generator, built, revs, map_, heads, _real_heads, bases,
                   _real_bases>>

\* The strings a caller asks get_revision for: the prefixes of the keys, the
\* symbol head, and an id or head qualified by a key (branch@id).
Queries ==
    {SubSeq(x, 1, n) : <<x, n>> \in {y \in (DOMAIN map_) \X (1..MaxQuery) :
                                        y[2] <= Len(y[1])}}
        \cup {"head"}
        \cup {b \o "@" \o x :
                <<b, x>> \in (DOMAIN map_) \X (ProviderIds(generator) \cup {"head"})}

\* get_revision(id_)
GetRevision ==
    /\ built = "built"
    /\ op.name = "_revision_map"
    /\ \E id_ \in {Str(q) : q \in Queries} :
            With(get_revision(Self, id_), LAMBDA r :
                op' = [name |-> "get_revision", id_ |-> id_,
                       raised |-> r.raised, value |-> r.value])
    /\ UNCHANGED <<generator, built, revs, map_, heads, _real_heads, bases,
                   _real_bases>>

\* the most records a provider constructs
MaxRecords == 2

\* the ids the provider's scripts declare, legal and illegal
ConstructIds == {"a", "b", "a+b", "a-b", "a@b"}

\* the names the scripts refer to, besides their own id
ConstructNames == {"a", "b"}

\* The provider constructs its next record: Revision(revision,
\* down_revision, dependencies).  A constructor that raises leaves no record.
Construct ==
    /\ built = "unbuilt"
    /\ Len(generator) < MaxRecords
    /\ \E revision \in ConstructIds :
          \E down_revision \in Tuples(ConstructNames \cup {revision}, MaxDown),
             dependencies \in Tuples(ConstructNames \cup {revision}, MaxDeps) :
            With(Revision_init_raises(revision, down_revision, dependencies),
                 LAMBDA raised :
                /\ op' = [name |-> "Revision", revision |-> revision,
                          down_revision |-> down_revision,
                          dependencies |-> dependencies, raised |-> raised]
                /\ generator' =
                      IF raised # "" THEN generator
                      ELSE Append(generator,
                                  Revision(revision, down_revision, dependencies, <<>>)))
    /\ UNCHANGED <<built, revs, map_, heads, _real_heads, bases, _real_bases>>

\* the most steps of a relative target
MaxSteps == 2

\* the relative parts +1 .. +MaxSteps and -1 .. -MaxSteps
Offsets ==
    {sign \o SubSeq(Digits, n + 1, n + 1) : sign \in {"+", "-"}, n \in 1..MaxSteps}

\* the branch labels the provider's records declare
ProviderLabels(gen) ==
    UNION {Range(gen[i]._orig_branch_labels) : i \in 1..Len(gen)}

\* The relative targets a caller passes: an offset alone or after an id,
\* head or base, and any of these qualified by a branch label.
RelativeTargets(gen) ==
    {Str(branch \o symbol \o offset) :
        branch \in {""} \cup {label \o "@" : label \in ProviderLabels(gen)},
        symbol \in {"", "head", "base"} \cup ProviderIds(gen),
        offset \in Offsets}

\* the current revisions a caller passes: an id, several ids, base or none
CurrentRevisions(gen) == Identifiers(gen, {"base"}) \cup {Tup(<<>>)}

\* iterate_revisions(upper, lower, implicit_base, inclusive) to a relative
\* target upper, consumed
RelativeUpgrade ==
    /\ built = "built"
    /\ op.name = "_revision_map"
    /\ \E upper \in RelativeTargets(generator),
          lower \in CurrentRevisions(generator),
          inclusive \in BOOLEAN, implicit_base \in BOOLEAN :
            With(iterate_revisions(Self, upper, lower, implicit_base, inclusive,
                                   FALSE), LAMBDA r :
                op' = [name |-> "upgrade", upper |-> upper, lower |-> lower,
                       inclusive |-> inclusive, implicit_base |-> implicit_base,
                       raised |-> r.raised, value |-> r.value])
    /\ UNCHANGED <<generator, built, revs, map_, heads, _real_heads, bases,
                   _real_bases>>

\* iterate_revisions(upper, target, implicit_base, inclusive,
\* select_for_downgrade=True) to a relative target, consumed
RelativeDowngrade ==
    /\ built = "built"
    /\ op.name = "_revision_map"
    /\ \E upper \in CurrentRevisions(generator),
          target \in RelativeTargets(generator),
          inclusive \in BOOLEAN, implicit_base \in BOOLEAN :
            With(iterate_revisions(Self, upper, target, implicit_base, inclusive,
                                   TRUE), LAMBDA r :
                op' = [name |-> "downgrade", upper |-> upper, lower |-> target,
                       inclusive |-> inclusive, implicit_base |-> implicit_base,
                       raised |-> r.raised, value |-> r.value])
    /\ UNCHANGED <<generator, built, revs, map_, heads, _real_heads, bases,
                   _real_bases>>

\* the most calls of add_revision on one map
MaxAdds == 2

\* the ids, the names referred to and the labels of the revisions added
AddIds == {"a", "c", "lbl"}

AddNames == {"a", "b"}

AddLabels == {<<>>, <<"lbl">>}

\* add_revision(Revision(...), _replace).  An exception ends the command:
\* nothing more is added after a call that raised.
AddRevision ==
    /\ built = "built"
    /\ op.name \in {"_revision_map", "add_revision"}
    /\ op.raised = ""
    /\ Len(revs) < Len(generator) + MaxAdds
    /\ \E id \in AddIds, _replace \in BOOLEAN :
          \E revision \in Records(id, AddNames, AddLabels) :
            With(add_revision(Self, revision, _replace), LAMBDA r :
                /\ revs' = r.revs
                /\ map_' = r.map_
                /\ heads' = r.heads
                /\ _real_heads' = r._real_heads
                /\ bases' = r.bases
                /\ _real_bases' = r._real_bases
                /\ op' = [name |-> "add_revision", revision |-> revision,
                          _replace |-> _replace, raised |-> r.raised,
                          warned |-> r.warned])
    /\ UNCHANGED <<generator, built>>

\* the most heads in one list of heads
MaxHeads == 2

\* the dict of Revision objects that is handed to checkout_revisions
RevisionDict == [k \in DOMAIN map_ |-> revs[map_[k]]]

\* the lists of at most MaxHeads Revision objects of the dict
HeadLists ==
    {[i \in 1..Len(t) |-> RevisionDict[t[i]]] : t \in Tuples(DOMAIN map_, MaxHeads)}

\* checkout_revisions(revision_map, current_heads, target_heads)
Checkout ==
    /\ built = "dict"
    /\ op.name = "dict"
    /\ \E current_heads \in HeadLists, target_heads \in HeadLists :
          \E migration \in checkout_revisions(RevisionDict, current_heads, target_heads) :
            op' = [name |-> "checkout_revisions", current_heads |-> current_heads,
                   target_heads |-> target_heads,
                   downgrade_order |-> migration.downgrade_order,
                   upgrade_order |-> migration.upgrade_order]
    /\ UNCHANGED <<generator, built, revs, map_, heads, _real_heads, bases,
                   _real_bases>>

\* topological_sort(revisions) for a collection of revisions of the map
TopologicalSort ==
    /\ built = "built"
    /\ op.name = "_revision_map"
    /\ \E revisions \in SUBSET {map_[k] : k \in DOMAIN map_} :
            With(topological_sort(Self, revisions), LAMBDA r :
                op' = [name |-> "topological_sort", revisions |-> revisions,
                       raised |-> r.raised, value |-> r.value])
    /\ UNCHANGED <<generator, built, revs, map_, heads, _real_heads, bases,
                   _real_bases>>

\* the most starting revisions of one traversal
MaxStarts == 3

\* _iterate_related_revisions(fn, targets, map_=None, check=True), consumed,
\* with each edge selector that its callers pass
IterateRelatedRevisions ==
    /\ built = "built"
    /\ op.name = "_revision_map"
    /\ \E n \in 0..MaxStarts :
        \E targets \in [1..n -> {map_[k] : k \in DOMAIN map_}],
           fn \in {"_versioned_down_revisions", "_normalized_down_revisions",
                   "nextrev", "_all_nextrev"} :
            With(_iterate_related_revisions(revs, fn, targets, map_, TRUE), LAMBDA r :
                op' = [name |-> "_iterate_related_revisions", fn |-> fn,
                       targets |-> targets, raised |-> r.raised,
                       value |-> r.yielded])
    /\ UNCHANGED <<generator, built, revs, map_, heads, _real_heads, bases,
                   _real_bases>>

\* Building alone: every provider of three revisions, and the fixtures
BuildIds == <<"a", "b", "c">>

InitBuild ==
    \E gen \in Providers(BuildIds, Range(BuildIds), {<<>>})
                \cup {ScenarioProvider, CycleProvider, CycleDependencyProvider,
                      LabelDependencyProvider} :
        Unbuilt(gen)

NextBuild == Build

SpecBuild == InitBuild /\ [][NextBuild]_vars

\* Building over records that may declare the branch label lbl
InitLabels ==
    \E gen \in Providers(BuildIds, Range(BuildIds), {<<>>, <<"lbl">>}) : Unbuilt(gen)

SpecLabels == InitLabels /\ [][NextBuild]_vars

\* Sorting and traversing the built map, over the same providers
NextTraverse == Build \/ TopologicalSort \/ IterateRelatedRevisions

SpecTraverse == InitBuild /\ [][NextTraverse]_vars

\* Planning, over the same providers
InitPlan == InitBuild

NextPlan == Build \/ Upgrade \/ Downgrade

SpecPlan == InitPlan /\ [][NextPlan]_vars

\* Resolving, over the providers of two revisions, one of which may carry a
\* branch label, and the fixtures
ResolveIds == <<"abcdef", "abcxyz">>

\* a long id and a short one that share no prefix
DistinctIds == <<"abcdef", "E">>

\* the provider that yields nothing
EmptyProvider == <<>>

InitResolve ==
    \E gen \in Providers(ResolveIds, Range(ResolveIds), {<<>>, <<"abcdlabel">>})
                \cup Providers(DistinctIds, Range(DistinctIds), {<<>>, <<"abcdlabel">>})
                \cup {EmptyProvider, ScenarioProvider, LabelDependencyProvider} :
        Unbuilt(gen)

NextResolve == Build \/ GetRevision

SpecResolve == InitResolve /\ [][NextResolve]_vars

\* Providers that yield an id twice, or refer to the id c of no record
DuplicateIds == <<"a", "b", "a">>

PresentIds == <<"a", "b">>

ReferredNames == {"a", "b", "c"}

InitProvide ==
    \E gen \in Providers(DuplicateIds, ReferredNames, {<<>>})
                \cup Providers(PresentIds, ReferredNames, {<<>>}) :
        Unbuilt(gen)

NextProvide == Build

SpecProvide == InitProvide /\ [][NextProvide]_vars

\* Adding revisions to the maps of a few small providers: a chain a <- b
\* with and without the label lbl on a, a label on the id of another
\* revision, and the fixtures
ChainProvider ==
    <<Revision("a", <<>>, <<>>, <<>>), Revision("b", <<"a">>, <<>>, <<>>)>>

LabelledChainProvider ==
    <<Revision("a", <<>>, <<>>, <<"lbl">>), Revision("b", <<"a">>, <<>>, <<>>)>>

LabelOnIdProvider ==
    <<Revision("a", <<>>, <<>>, <<>>), Revision("b", <<"a">>, <<>>, <<"a">>)>>

InitAdd ==
    \E gen \in {EmptyProvider, ChainProvider, LabelledChainProvider,
                 LabelOnIdProvider, LabelDependencyProvider} :
        Unbuilt(gen)

NextAdd == Build \/ AddRevision

SpecAdd == InitAdd /\ [][NextAdd]_vars

\* Planning to relative targets: a branch point a and a merge point m,
\* a <- b <- m <- d and a <- c <- m, and the labelled chain
BranchMergeProvider ==
    <<Revision("a", <<>>, <<>>, <<>>),
      Revision("b", <<"a">>, <<>>, <<>>),
      Revision("c", <<"a">>, <<>>, <<>>),
      Revision("m", <<"b", "c">>, <<>>, <<>>),
      Revision("d", <<"m">>, <<>>, <<>>)>>

InitRelative ==
    \E gen \in {BranchMergeProvider, LabelledChainProvider} : Unbuilt(gen)

NextRelative == Build \/ RelativeUpgrade \/ RelativeDowngrade

SpecRelative == InitRelative /\ [][NextRelative]_vars

\* Constructing the records one by one, then building the map over them
InitRevision == Unbuilt(EmptyProvider)

NextRevision == Construct \/ Build

SpecRevision == InitRevision /\ [][NextRevision]_vars

\* Checking out: the dicts of four Revision objects a, b, c, d in which a
\* record names only ids that come before its own, as the revision_map
\* fixture of revision-maps.py does
CheckoutProviders ==
    {<<a, b, c, d>> :
        <<a, b, c, d>> \in Records("a", {}, {<<>>}) \X Records("b", {"a"}, {<<>>})
                            \X Records("c", {"a", "b"}, {<<>>})
                            \X Records("d", {"a", "b", "c"}, {<<>>})}

InitCheckout ==
    \E gen \in CheckoutProviders :
        /\ generator = gen
        /\ built = "dict"
        /\ revs = gen
        /\ map_ = [x \in ProviderIds(gen) |-> CHOOSE i \in 1..Len(gen) : gen[i].revision = x]
        /\ heads = <<>>
        /\ _real_heads = <<>>
        /\ bases = <<>>
        /\ _real_bases = <<>>
        /\ op = [name |-> "dict"]

NextCheckout == Checkout

SpecCheckout == InitCheckout /\ [][NextCheckout]_vars

-----------------------------------------------------------------------------
(* The graph by revision id, read from the provider's records, and the     *)
(* reachability the properties are stated in.                              *)

RevisionIds == ProviderIds(generator)

\* the record of the provider with the id x
Record(x) == generator[CHOOSE i \in 1..Len(generator) : generator[i].revision = x]

\* the ids a name stands for: the revision of that id, or the revision that
\* declares the name as a branch label
Named(name) ==
    {x \in RevisionIds : x = name \/ name \in Range(Record(x)._orig_branch_labels)}

\* x |-> the ids x is down from
VersionedView == [x \in RevisionIds |-> Range(Record(x).down_revision)]

\* x |-> the ids x is down from or depends on
FullView ==
    [x \in RevisionIds |->
        Range(Record(x).down_revision)
            \cup UNION {Named(d) : d \in Range(Record(x).dependencies)}]

\* x |-> the ids that x names, as ids, in down_revision or dependencies
DeclaredView ==
    [x \in RevisionIds |->
        (Range(Record(x).down_revision) \cup Range(Record(x).dependencies))
            \cap RevisionIds]

Inverse(view) == [x \in DOMAIN view |-> {y \in DOMAIN view : x \in view[y]}]

\* S and everything reached from S along view
RECURSIVE Closure(_, _)
Closure(view, S) ==
    IF UNION {view[x] : x \in S} \subseteq S THEN S
    ELSE Closure(view, S \cup UNION {view[x] : x \in S})

Ancestors(S, view) == Closure(view, S)

Descendants(S, view) == Closure(Inverse(view), S)

HasCycle(view) == \E x \in DOMAIN view : x \in Closure(view, view[x])

RealHeadIds == {x \in RevisionIds : \A y \in RevisionIds : x \notin FullView[y]}

RealBaseIds ==
    {x \in RevisionIds : Record(x).down_revision = <<>> /\ Record(x).dependencies = <<>>}

\* the revisions an absolute identifier names
IdsNamed(id_) ==
    IF id_.t = "tuple" THEN Range(id_.v)
    ELSE IF id_.t = "None" \/ id_.v = "base" THEN {}
    ELSE IF id_.v = "heads" THEN RealHeadIds
    ELSE {id_.v}

Is(id_, symbol) == id_.t = "str" /\ id_.v = symbol

\* the ids of the revisions a planner call yielded, in the order yielded
YieldedIds == [i \in 1..Len(op.value) |-> revs[op.value[i]].revision]

Upgraded == op.name = "upgrade" /\ op.raised = ""

Downgraded == op.name = "downgrade" /\ op.raised = ""

\* every yielded revision comes before the yielded revisions view gives it
ChildrenFirst(view) ==
    \A i, j \in 1..Len(op.value) :
        YieldedIds[j] \in view[YieldedIds[i]] => i < j

ParentsFirst(view) ==
    \A i, j \in 1..Len(op.value) :
        YieldedIds[j] \in view[YieldedIds[i]] => j < i

ScenarioUpgrade ==
    /\ generator = ScenarioProvider
    /\ op.name = "upgrade"
    /\ Is(op.upper, "heads")
    /\ Is(op.lower, "base")

ScenarioDowngrade ==
    /\ generator = ScenarioProvider
    /\ op.name = "downgrade"
    /\ op.upper = Tup(<<"C", "D">>)
    /\ Is(op.lower, "B")
    /\ ~op.inclusive

-----------------------------------------------------------------------------
(* Building rejects cycles *)

\* C1: every map that builds successfully is acyclic in the full view
\* (down_revision and resolved dependencies), also when the nodes of the
\* cycle are connected to a base and to a head.
C1_BuiltMapIsAcyclic == built = "built" => ~HasCycle(FullView)

\* a map built over a cycle that hangs between the base a and the head d
C1_CycleBuilt == built = "built" /\ generator = CycleProvider

-----------------------------------------------------------------------------
(* The upgrade planner *)

Required == Ancestors(IdsNamed(op.upper), FullView)

Current == Ancestors(IdsNamed(op.lower), FullView)

Needs ==
    ((Required \ Current) \cup (IF op.inclusive THEN IdsNamed(op.lower) ELSE {}))
        \cap (IF IdsNamed(op.lower) # {} /\ ~op.implicit_base
              THEN Descendants(IdsNamed(op.lower), VersionedView)
              ELSE RevisionIds)

\* C2: a successful upgrade yields exactly needs = required \ current, plus
\* the lower revisions when inclusive, within the versioned descendants of
\* the lower revisions when there are some and implicit_base is false; no
\* revision is yielded twice and none is outside the map.
C2_UpgradeYieldsNeeds ==
    Upgraded =>
        /\ Range(YieldedIds) = Needs
        /\ Cardinality(Range(op.value)) = Len(op.value)
        /\ Range(op.value) \subseteq 1..Len(revs)

\* upgrade(upper = e, lower = c, implicit_base) over the cycle b <-> c whose
\* members depend on e
C2_CycleUpgraded ==
    /\ Upgraded
    /\ generator = CycleDependencyProvider
    /\ Is(op.upper, "e") /\ Is(op.lower, "c") /\ op.implicit_base /\ ~op.inclusive

\* C3 as stated: a successful upgrade yields every revision after each of
\* its predecessors in the sequence, and the scenario's upgrade from base to
\* heads yields A, E, then B and F, then C, D.
C3_UpgradeParentsFirst ==
    Upgraded =>
        /\ ParentsFirst(FullView)
        /\ ScenarioUpgrade =>
            YieldedIds \in {<<"A", "E", "F", "B", "C", "D">>,
                            <<"A", "E", "B", "F", "C", "D">>}

\* C3: a successful upgrade yields every revision before each revision of
\* the sequence that it names by id in down_revision or dependencies, and
\* the scenario's upgrade from base to heads yields D, C, F, B, E, A.
C3_UpgradeChildrenFirst ==
    Upgraded =>
        /\ ChildrenFirst(DeclaredView)
        /\ ScenarioUpgrade => YieldedIds = <<"D", "C", "F", "B", "E", "A">>

C3_ScenarioUpgraded == Upgraded /\ ScenarioUpgrade

-----------------------------------------------------------------------------
(* The downgrade planner *)

Roots ==
    IF IdsNamed(op.lower) = {} THEN RealBaseIds
    ELSE IF op.inclusive THEN IdsNamed(op.lower)
    ELSE UNION {Inverse(VersionedView)[x] : x \in IdsNamed(op.lower)}

Drop == Descendants(Roots, FullView) \cap Ancestors(IdsNamed(op.upper), FullView)

\* C4: a successful downgrade with implicit_base false yields exactly the
\* full-view descendants of the roots that are full-view ancestors of the
\* upper revisions; the roots are the real bases for the target base, the
\* target when inclusive, and otherwise the versioned children of the target.
C4_DowngradeYieldsDrop ==
    Downgraded /\ ~op.implicit_base => Range(YieldedIds) = Drop

C4_ScenarioDowngraded ==
    Downgraded /\ ScenarioDowngrade /\ ~op.implicit_base /\ YieldedIds = <<"D", "C">>

\* C5: a successful downgrade yields every revision before each of its
\* predecessors (down or resolved dependency) in the sequence, and the
\* scenario's downgrade(upper = (C, D), target = B) yields D, C.
C5_DowngradeChildrenFirst ==
    Downgraded =>
        /\ ChildrenFirst(FullView)
        /\ ScenarioDowngrade => YieldedIds = <<"D", "C">>

\* downgrade(upper = a, target = base) where a depends on b by b's label
C5_LabelDowngraded ==
    /\ Downgraded
    /\ generator = LabelDependencyProvider
    /\ Is(op.upper, "a") /\ Is(op.lower, "base")

\* C6: when no full-view descendant of the roots is a full-view ancestor of
\* the upper revisions, the downgrade fails with RangeNotAncestorError and
\* yields nothing, for both values of implicit_base and also when there is
\* no root at all.
C6_EmptyDropRaises ==
    op.name = "downgrade" /\ Drop = {} =>
        op.raised = "RangeNotAncestorError" /\ op.value = <<>>

\* a downgrade to a head, not inclusive: there is no root
C6_NoRoots ==
    /\ op.name = "downgrade"
    /\ RevisionIds # {}
    /\ Roots = {}
    /\ op.raised = "AssertionError"

\* a downgrade with implicit_base that yields although the range is empty
C6_EmptyDropYields ==
    Downgraded /\ op.implicit_base /\ Drop = {} /\ op.value # <<>>

-----------------------------------------------------------------------------
(* Upgrade and downgrade over the same range *)

\* the downgrade with the arguments of the upgrade in op
SameDowngrade ==
    iterate_revisions(Self, op.upper, op.lower, op.implicit_base, op.inclusive, TRUE)

RoundTrip ==
    /\ Upgraded
    /\ op.lower.t = "str"
    /\ IdsNamed(op.lower) \subseteq Ancestors(IdsNamed(op.upper), FullView)

-----------------------------------------------------------------------------
(* Heads and bases of a built map *)

\* C8: after a successful build, heads is the ids that are in no down,
\* real_heads the ids that are in no down and no resolved dependencies,
\* bases the ids with empty down, real_bases the ids with empty down and
\* empty dependencies; is_head and _is_real_head agree with heads and
\* real_heads.
C8_HeadsAndBases ==
    built = "built" =>
        /\ Range(heads) = {x \in RevisionIds : \A y \in RevisionIds : x \notin VersionedView[y]}
        /\ Range(_real_heads) = RealHeadIds
        /\ Range(bases) = {x \in RevisionIds : Record(x).down_revision = <<>>}
        /\ Range(_real_bases) = RealBaseIds
        /\ \A i \in 1..Len(revs) :
            /\ is_head(revs[i]) <=> revs[i].revision \in Range(heads)
            /\ _is_real_head(revs[i]) <=> revs[i].revision \in Range(_real_heads)

\* a built map with a head that is not a real head
C8_HeadNotRealHead ==
    /\ built = "built"
    /\ Range(_real_heads) # Range(heads)
    /\ Range(_real_bases) # Range(bases)

\* C9 as stated: the scenario's map has heads (C, D), real_heads (C, D),
\* bases (A, E), real_bases (A, E), and D's normalized dependencies are (F).
C9_ScenarioHeadsCD ==
    built = "built" /\ generator = ScenarioProvider =>
        /\ heads = <<"C", "D">>
        /\ _real_heads = <<"C", "D">>
        /\ bases = <<"A", "E">>
        /\ _real_bases = <<"A", "E">>
        /\ revs[map_["D"]]._normalized_resolved_dependencies = <<"F">>

\* C9: the scenario's map has heads (C, D, F), real_heads (C, D),
\* bases (A, E), real_bases (A, E), and D's normalized dependencies are (F).
C9_ScenarioHeadsCDF ==
    built = "built" /\ generator = ScenarioProvider =>
        /\ heads = <<"C", "D", "F">>
        /\ _real_heads = <<"C", "D">>
        /\ bases = <<"A", "E">>
        /\ _real_bases = <<"A", "E">>
        /\ revs[map_["D"]]._normalized_resolved_dependencies = <<"F">>

C9_ScenarioBuilt == built = "built" /\ generator = ScenarioProvider

-----------------------------------------------------------------------------
(* Partial revision ids *)

\* the revision ids that start with the query of op
Matching == {x \in RevisionIds : startswith(x, op.id_.v)}

UniquePrefix ==
    /\ op.name = "get_revision"
    /\ Len(op.id_.v) >= 4
    /\ op.id_.v \notin DOMAIN map_
    /\ Cardinality(Matching) = 1

\* C10: get_revision of a prefix of at least four characters that is not a
\* key and that starts exactly one revision id returns that revision, also
\* when the revision carries branch labels.
C10_UniquePrefixResolves ==
    UniquePrefix =>
        /\ op.raised = ""
        /\ op.value # NoneObject
        /\ revs[op.value].revision \in Matching

\* get_revision("abcd") when abcdef, labelled abcdlabel, is the only id that
\* starts with abcd
C10_LabelledPrefix ==
    /\ op.name = "get_revision"
    /\ op.id_.v = "abcd"
    /\ Matching = {"abcdef"}
    /\ Record("abcdef")._orig_branch_labels = <<"abcdlabel">>
    /\ op.raised = "ResolutionError"

\* a query of fewer than four characters, not branch-qualified, that is
\* not a key of the map
ShortQuery ==
    /\ op.name = "get_revision"
    /\ Len(op.id_.v) < 4
    /\ ~HasChar(op.id_.v, "@")
    /\ op.id_.v \notin DOMAIN map_

\* C11: get_revision of a string of fewer than four characters that is not
\* a key of the map fails with ResolutionError, whatever ids start with it.
C11_ShortQueryFails == ShortQuery => op.raised = "ResolutionError"

\* get_revision("abc") that returns abcdef, the one id that starts with abc
C11_ShortQueryResolved ==
    /\ ShortQuery
    /\ op.id_.v = "abc"
    /\ Matching = {"abcdef"}
    /\ op.raised = ""
    /\ revs[op.value].revision = "abcdef"

-----------------------------------------------------------------------------
(* Branch-qualified ids and the symbol head *)

\* the qualifier and the rest of the query branch@rest
Qualifier == SubSeq(op.id_.v, 1, find(op.id_.v, "@") - 1)

Qualified == SubSeq(op.id_.v, find(op.id_.v, "@") + 1, Len(op.id_.v))

\* get_revision(branch@id) for a key branch and a revision id
BranchQuery ==
    /\ op.name = "get_revision"
    /\ HasChar(op.id_.v, "@")
    /\ Qualifier \in DOMAIN map_
    /\ Qualified \in RevisionIds

\* the ids on one line with the revisions S along view
Lineage(S, view) == Ancestors(S, view) \cup Descendants(S, view)

\* the query returns the revision asked for if it is in the lineage, and
\* fails with ResolutionError if it is not
ResolvesWithin(lineage) ==
    IF Qualified \in lineage
    THEN op.raised = "" /\ op.value # NoneObject /\ revs[op.value].revision = Qualified
    ELSE op.raised = "ResolutionError"

\* C12 as stated: label@id returns the revision exactly when it is an
\* ancestor or a descendant of the label's revision, or that revision,
\* along down and resolved dependencies, and fails with ResolutionError
\* otherwise.
C12_FullViewLineage ==
    BranchQuery => ResolvesWithin(Lineage(Named(Qualifier), FullView))

\* C12: label@id returns the revision exactly when it is an ancestor or a
\* descendant of the label's revision, or that revision, along down_revision
\* alone, and fails with ResolutionError otherwise; a revision joined to the
\* label's revision only by a dependency is refused.
C12_VersionedLineage ==
    BranchQuery => ResolvesWithin(Lineage(Named(Qualifier), VersionedView))

\* a query for a revision that only depends on the labelled revision
C12_DependencyOnly ==
    /\ BranchQuery
    /\ Qualifier \notin RevisionIds
    /\ Qualified \in Lineage(Named(Qualifier), FullView)
    /\ Qualified \notin Lineage(Named(Qualifier), VersionedView)
    /\ op.raised = "ResolutionError"

\* get_revision("head") or get_revision(branch@head) for a key branch
HeadQuery ==
    /\ op.name = "get_revision"
    /\ \/ op.id_.v = "head"
       \/ HasChar(op.id_.v, "@") /\ Qualifier \in DOMAIN map_ /\ Qualified = "head"

HeadIds == {x \in RevisionIds : \A y \in RevisionIds : x \notin VersionedView[y]}

\* the heads, or those of them on the branch asked for
HeadSet ==
    IF op.id_.v = "head" THEN HeadIds
    ELSE HeadIds \cap Lineage(Named(Qualifier), VersionedView)

\* C13: resolving head returns the one head when the head set, filtered by
\* the branch if one is given, has exactly one entry, raises MultipleHeads
\* carrying the head set when it has more, and returns None when it is
\* empty.
C13_HeadIsTheSingleHead ==
    HeadQuery =>
        /\ Cardinality(HeadSet) = 1 =>
            /\ op.raised = ""
            /\ op.value # NoneObject
            /\ revs[op.value].revision \in HeadSet
        /\ Cardinality(HeadSet) > 1 =>
            op.raised = "MultipleHeads" /\ Range(op.value) = HeadSet
        /\ HeadSet = {} => op.raised = "" /\ op.value = NoneObject

\* head asked for on a branch that holds one of several heads
C13_BranchHead ==
    /\ HeadQuery
    /\ op.id_.v # "head"
    /\ Cardinality(HeadIds) > 1
    /\ Cardinality(HeadSet) = 1
    /\ op.raised = ""

-----------------------------------------------------------------------------
(* C14: the constructor's errors *)

Constructed == op.name = "Revision"

InOwnDown == Constructed /\ op.revision \in Range(op.down_revision)

InOwnDeps == Constructed /\ op.revision \in Range(op.dependencies)

IllegalId ==
    Constructed /\ \E c \in {"@", "-", "+"} : HasChar(op.revision, c)

\* the constructor raised an exception of the class
Raises(class) == op.raised # "" /\ issubclass(op.raised, class)

\* no revision of the built map names itself in its down or its deps
NoSelfReference ==
    \A i \in DOMAIN revs :
        revs[i].revision \notin Range(revs[i].down_revision)
                                  \cup Range(revs[i].dependencies)

\* C14 as stated: constructing a Revision whose id is in its own down raises
\* LoopDetected, whose id is in its own deps raises DependencyLoopDetected,
\* whose id has one of the characters @ - + raises RevisionError, and no
\* revision of a map has itself among its down or deps.
C14_ConstructorErrors ==
    /\ InOwnDown => Raises("LoopDetected")
    /\ InOwnDeps => Raises("DependencyLoopDetected")
    /\ IllegalId => Raises("RevisionError")
    /\ NoSelfReference

\* C14 amended: an id that is in its own deps raises DependencyLoopDetected
\* only when it is not in its own down as well; when it is in both, the
\* exception is the LoopDetected of the first test, which is no
\* DependencyLoopDetected.
C14_LoopBeforeDependencyLoop ==
    /\ InOwnDown => op.raised = "LoopDetected"
    /\ InOwnDeps /\ ~InOwnDown => op.raised = "DependencyLoopDetected"
    /\ IllegalId => Raises("RevisionError")
    /\ NoSelfReference

\* a constructor called with the id in its deps and in its down
C14_InBoth == InOwnDown /\ InOwnDeps /\ op.raised = "LoopDetected"

-----------------------------------------------------------------------------
(* C15: two records with the same id *)

\* the build has run over the provider's records
BuildRan == op.name = "_revision_map"

\* the ids that more than one record of the provider has
DuplicatedIds ==
    {generator[i].revision : i \in {i \in 1..Len(generator) :
        \E j \in 1..(i - 1) : generator[j].revision = generator[i].revision}}

\* the first record of the provider with the id
FirstRecord(id) ==
    CHOOSE i \in 1..Len(generator) :
        /\ generator[i].revision = id
        /\ \A j \in 1..(i - 1) : generator[j].revision # id

\* how many times a tuple holds an item
Count(s, x) == Cardinality({i \in 1..Len(s) : s[i] = x})

\* C15: when the provider yields two records with the same id the build
\* warns, by_id keeps the first of them, and heads and bases hold the id at
\* most once.
C15_DuplicateKeepsFirst ==
    BuildRan =>
        \A id \in DuplicatedIds :
            /\ <<"is present more than once", id>> \in op.warned
            /\ built = "built" =>
                    /\ map_[id] = FirstRecord(id)
                    /\ Count(heads, id) <= 1
                    /\ Count(bases, id) <= 1

\* a build over a duplicated id that finishes with the later record in
\* by_id and the id twice in heads
C15_DuplicateBuilt ==
    /\ built = "built"
    /\ \E id \in DuplicatedIds :
          /\ map_[id] # FirstRecord(id)
          /\ generator[map_[id]] # generator[FirstRecord(id)]
          /\ Count(heads, id) = 2

-----------------------------------------------------------------------------
(* C16: a record that refers to an id of no record *)

\* the names in down or deps of some record that no record has as its id
MissingNames ==
    UNION {Range(generator[i].down_revision) \cup Range(generator[i].dependencies) :
              i \in 1..Len(generator)}
        \ ProviderIds(generator)

\* C16: a record whose down or deps names an id of no record does not abort
\* the build: the build warns about the name and completes, with every id
\* of the provider in the map.
C16_MissingReferenceBuilds ==
    BuildRan /\ MissingNames # {} =>
        /\ built = "built"
        /\ \E name \in MissingNames : <<"is not present", name>> \in op.warned
        /\ ProviderIds(generator) \subseteq DOMAIN map_

\* a build that warned that c is not present and then raised KeyError
C16_MissingReferenceAborts ==
    /\ BuildRan
    /\ DuplicatedIds = {}
    /\ <<"is not present", "c">> \in op.warned
    /\ built = "KeyError"

-----------------------------------------------------------------------------
(* C17: branch labels after the build and after add_revision *)

\* a map after its build, or after calls of add_revision that all returned
MapState == built = "built" /\ op.raised = ""

\* by_id: the keys that are the id of the revision they lead to
ById == {k \in DOMAIN map_ : revs[map_[k]].revision = k}

\* the revisions of the map, as objects
RevisionsInMap == {map_[k] : k \in ById}

\* the branch labels a revision declares
DeclaredLabels(i) == Range(revs[i]._orig_branch_labels)

\* C17: in every map state branch labels are unique and disjoint from the
\* revision ids: no label is declared by two revisions of the map (a second
\* installation is fatal), no key is both a revision id and a branch label,
\* and every declared label resolves to the revision that declared it.
C17_LabelsUniqueAndDisjoint ==
    MapState =>
        /\ \A i, j \in RevisionsInMap :
                i # j => DeclaredLabels(i) \cap DeclaredLabels(j) = {}
        /\ \A i \in RevisionsInMap : DeclaredLabels(i) \cap ById = {}
        /\ \A i \in RevisionsInMap : \A label \in DeclaredLabels(i) :
                label \in DOMAIN map_ /\ map_[label] = i

\* add_revision of a revision whose id is the label of another has returned:
\* the key is that revision's id now, and the label leads to it
C17_IdTakesLabel ==
    /\ MapState
    /\ op.name = "add_revision"
    /\ \E i \in RevisionsInMap :
          /\ op.revision.revision \in DeclaredLabels(i)
          /\ op.revision.revision \in ById
          /\ map_[op.revision.revision] # i

-----------------------------------------------------------------------------
(* C18: heads, bases and successors after add_revision *)

\* the ids of the revisions of the map that have the id in their down
VersionedSuccessors(id) ==
    {revs[j].revision : j \in {j \in RevisionsInMap : id \in Range(revs[j].down_revision)}}

\* the ids of the revisions of the map that have the id in their down or in
\* their resolved dependencies
AllSuccessors(id) ==
    {revs[j].revision : j \in {j \in RevisionsInMap :
        id \in Range(revs[j].down_revision) \cup Range(revs[j]._resolved_dependencies)}}

\* no item is twice in the tuple
NoRepeat(s) == \A i, j \in 1..Len(s) : s[i] = s[j] => i = j

\* add_revision calls, and nothing else, have led from the build to the state
AfterAdds == MapState /\ op.name = "add_revision"

\* the invariants of a built map, for the map of the state
BuildInvariants ==
    /\ Range(heads) = {k \in ById : VersionedSuccessors(k) = {}}
    /\ Range(_real_heads) = {k \in ById : AllSuccessors(k) = {}}
    /\ Range(bases) = {k \in ById : revs[map_[k]].down_revision = <<>>}
    /\ NoRepeat(bases)
    /\ Range(_real_bases) =
            {k \in ById : /\ revs[map_[k]].down_revision = <<>>
                          /\ revs[map_[k]].dependencies = <<>>}
    /\ NoRepeat(_real_bases)
    /\ \A i \in RevisionsInMap :
            /\ revs[i].nextrev = VersionedSuccessors(revs[i].revision)
            /\ revs[i]._all_nextrev = AllSuccessors(revs[i].revision)

\* C18: after add_revision calls that returned without error, of new ids and
\* of existing ones with or without the replace flag, heads is exactly the
\* ids with no versioned successor, real_heads the ids with no successor,
\* bases and real_bases the ids with empty down (and deps), none twice, and
\* nextrev and all_nextrev of every revision are the ids that list it.
C18_AddKeepsBuildInvariants == AfterAdds => BuildInvariants

\* add_revision has put a second revision in the place of an existing id,
\* and the map no longer satisfies the invariants
C18_ReplacedAndBroken ==
    /\ AfterAdds
    /\ Len(revs) = Len(generator) + 1
    /\ op._replace
    /\ op.revision.revision \in ProviderIds(generator)
    /\ ~BuildInvariants

-----------------------------------------------------------------------------
(* C19: add_revision with the replace flag and an id that is not there *)

\* the step is a call add_revision(revision, _replace=True) with an id that
\* no revision of the map has
ReplaceOfMissing ==
    /\ built = "built"
    /\ op'.name = "add_revision"
    /\ op'._replace
    /\ op'.revision.revision \notin ById

\* the step is such a call with an id that is no key of map_ at all
ReplaceOfNoKey ==
    ReplaceOfMissing /\ op'.revision.revision \notin DOMAIN map_

\* the call raised and left the map as it was
FailedUnchanged ==
    /\ op'.raised = "Exception"
    /\ UNCHANGED <<revs, map_, heads, _real_heads, bases, _real_bases>>

\* C19: add_revision with the replace flag and an id that is not in the map
\* fails with a fatal error before changing anything: by_id, by_label,
\* heads, real_heads, bases, real_bases and every revision's edges and
\* labels are as before the call.
C19_ReplaceOfMissingFails == [][ReplaceOfMissing => FailedUnchanged]_vars

\* the same for an id that is neither an id nor a branch label of the map
C19_ReplaceOfNoKeyFails == [][ReplaceOfNoKey => FailedUnchanged]_vars

\* add_revision with the replace flag and the id lbl, on a map in which lbl
\* is the branch label of a and no revision's id, has returned
C19_ReplacedLabel ==
    /\ generator = LabelledChainProvider
    /\ Len(revs) = Len(generator) + 1
    /\ op.name = "add_revision"
    /\ op._replace
    /\ op.revision.revision = "lbl"
    /\ op.raised = ""
    /\ revs[map_["lbl"]].revision = "lbl"

-----------------------------------------------------------------------------
(* C20: relative targets that cannot be satisfied *)

\* the target and the current revisions of the planner call
CallTarget == IF op.name = "upgrade" THEN op.upper ELSE op.lower

CallCurrent == IF op.name = "upgrade" THEN op.lower ELSE op.upper

\* the forms of a relative target: branch@symbol+n, every part but the
\* offset optional
Forms ==
    [branch : {""} \cup ProviderLabels(generator),
     symbol : {"", "head", "base"} \cup RevisionIds,
     sign : {"+", "-"},
     n : 1..MaxSteps]

\* the text of a form
Text(f) ==
    (IF f.branch = "" THEN "" ELSE f.branch \o "@")
        \o f.symbol \o f.sign \o SubSeq(Digits, f.n + 1, f.n + 1)

\* a planner has been called with a relative target
RelativeCall ==
    /\ op.name \in {"upgrade", "downgrade"}
    /\ \E f \in Forms : CallTarget = Str(Text(f))

\* the form of the target of the call
Form == CHOOSE f \in Forms : CallTarget = Str(Text(f))

\* the revisions one step down from x; base has none
StepDown(x) == IF x = "base" THEN {} ELSE VersionedView[x]

\* the revisions one step up from x on the branch ("" for any branch): the
\* revisions x is the down of, and the roots for base
StepUp(x, branch) ==
    {y \in RevisionIds :
        /\ IF x = "base" THEN VersionedView[y] = {} ELSE x \in VersionedView[y]
        /\ branch = "" \/ \E i \in 1..Len(revs) :
                               revs[i].revision = y /\ branch \in revs[i].branch_labels}

\* where n steps down from x end: at a revision ("ok"), at a merge point
\* that the walk would have to cross, or past the base
RECURSIVE WalkDown(_, _)
WalkDown(x, n) ==
    IF n = 0 THEN "ok"
    ELSE IF Cardinality(StepDown(x)) > 1 THEN "merge"
    ELSE IF StepDown(x) = {} THEN "past"
    ELSE WalkDown(CHOOSE y \in StepDown(x) : TRUE, n - 1)

\* where n steps up from x end: at a revision, at a branch point that the
\* walk would have to cross, or past the head
RECURSIVE WalkUp(_, _, _)
WalkUp(x, n, branch) ==
    IF n = 0 THEN "ok"
    ELSE IF Cardinality(StepUp(x, branch)) > 1 THEN "branch"
    ELSE IF StepUp(x, branch) = {} THEN "past"
    ELSE WalkUp(CHOOSE y \in StepUp(x, branch) : TRUE, n - 1, branch)

\* the ids the call gives as current revisions, for an id or a tuple of ids
CurrentIds ==
    IF CallCurrent.t = "tuple" THEN CallCurrent.v
    ELSE IF CallCurrent.t = "str" /\ CallCurrent.v \in RevisionIds THEN <<CallCurrent.v>>
    ELSE <<>>

\* the revision (or base) that the walk starts from, "" if the form does
\* not determine one: the symbol, the single head, or the one current
\* revision of an unanchored form
Anchor ==
    IF Form.symbol \in RevisionIds \cup {"base"} THEN Form.symbol
    ELSE IF Form.symbol = "head"
        THEN IF Form.branch = "" /\ Cardinality(Range(heads)) = 1 THEN heads[1]
             ELSE ""
    ELSE IF Len(CurrentIds) = 1 THEN CurrentIds[1]
    ELSE ""

\* an unanchored positive offset of an upgrade with several current
\* revisions or with an empty tuple of them
AmbiguousUpgrade ==
    /\ op.name = "upgrade"
    /\ Form.symbol = "" /\ Form.sign = "+"
    /\ CallCurrent.t = "tuple" /\ Len(CallCurrent.v) # 1

\* the walk of the target crosses a merge point or a branch point, or goes
\* past the base or the head
WalkFails ==
    /\ Anchor # ""
    /\ Form.symbol = "" => (Form.sign = "+" <=> op.name = "upgrade")
    /\ IF Form.sign = "-" THEN WalkDown(Anchor, Form.n) # "ok"
       ELSE WalkUp(Anchor, Form.n, Form.branch) # "ok"

Unsatisfiable == RelativeCall /\ (WalkFails \/ AmbiguousUpgrade)

\* C20: in both planners a relative target that cannot be satisfied (the
\* walk crosses a merge point downwards or a branch point upwards, or goes
\* past the base or the head, anchored or not, or an unanchored positive
\* upgrade offset meets other than one current revision) makes the call
\* fail with RevisionError and yield no plan.
C20_UnsatisfiableRaisesRevisionError ==
    Unsatisfiable => issubclass(op.raised, "RevisionError") /\ op.value = <<>>

\* an upgrade to d+1, one step past the head d, has raised AssertionError
C20_UpgradePastHead ==
    /\ op.name = "upgrade"
    /\ CallTarget = Str("d+1")
    /\ WalkFails
    /\ op.raised = "AssertionError"

-----------------------------------------------------------------------------
(* C21: checkout_revisions, the drop-then-add plan *)

CheckedOut == op.name = "checkout_revisions"

\* the ids of a list of Revision objects
IdsOf(scripts) == [i \in 1..Len(scripts) |-> scripts[i].revision]

\* the dependency closure of a list of heads, the heads included
ClosureOfHeads(scripts) == Ancestors(Range(IdsOf(scripts)), DeclaredView)

CurrentClosure == ClosureOfHeads(op.current_heads)

TargetClosure == ClosureOfHeads(op.target_heads)

\* x depends on y: y is reached from x along down_revision and dependencies
DependsOn(x, y) == y \in Ancestors(DeclaredView[x], DeclaredView)

DependentsFirst(ids) ==
    \A i, j \in 1..Len(ids) : DependsOn(ids[i], ids[j]) => i < j

DependenciesFirst(ids) ==
    \A i, j \in 1..Len(ids) : DependsOn(ids[i], ids[j]) => j < i

DropThenAdd(down, up) ==
    /\ Range(down) = CurrentClosure \ TargetClosure
    /\ Range(up) = TargetClosure \ CurrentClosure
    /\ DependentsFirst(down)
    /\ DependenciesFirst(up)
    /\ NoRepeat(down)
    /\ NoRepeat(up)
    /\ Range(down) \cap Range(up) = {}
    /\ (CurrentClosure \ Range(down)) \cup Range(up) = TargetClosure
    /\ (Range(IdsOf(op.current_heads)) = Range(IdsOf(op.target_heads))
            => down = <<>> /\ up = <<>>)

\* C21: checkout_revisions returns a drop-then-add plan.  downgrade_order
\* lists exactly the current closure less the target closure, every
\* revision before the revisions it depends on; upgrade_order lists exactly
\* the target closure less the current closure, every revision after the
\* revisions it depends on; neither repeats a revision, they share none,
\* dropping the one and adding the other turns the current closure into the
\* target closure, and equal head lists give two empty lists.
C21_CheckoutIsDropThenAdd ==
    CheckedOut => DropThenAdd(IdsOf(op.downgrade_order), IdsOf(op.upgrade_order))

\* a checkout that drops two revisions and adds two, with a dependency
\* inside each list
C21_DropsAndAdds ==
    /\ CheckedOut
    /\ \E i, j \in 1..Len(op.downgrade_order) :
            DependsOn(op.downgrade_order[i].revision, op.downgrade_order[j].revision)
    /\ \E i, j \in 1..Len(op.upgrade_order) :
            DependsOn(op.upgrade_order[i].revision, op.upgrade_order[j].revision)

-----------------------------------------------------------------------------
(* C22: the normalized dependencies of a built map *)

Built == built = "built" /\ BuildRan

\* the ids that the revision object i is down from or depends on
Predecessors(i) ==
    Range(revs[i].down_revision) \cup Range(revs[i]._resolved_dependencies)

\* the dependency d of the object i is an ancestor of i by another path
AncestorByAnotherPath(i, d) ==
    \E p \in Predecessors(i) \ {d} : d \in Ancestors({p}, FullView)

Normalized(i) ==
    /\ revs[i].revision \notin Range(revs[i]._normalized_resolved_dependencies)
    /\ Range(revs[i]._normalized_resolved_dependencies)
            \subseteq Range(revs[i]._resolved_dependencies)
    /\ \A d \in Range(revs[i]._normalized_resolved_dependencies) :
            ~AncestorByAnotherPath(i, d)

\* C22: after a successful build no revision is among its own normalized
\* dependencies, the normalized dependencies are among the resolved ones,
\* and no normalized dependency is reachable, along down revisions and
\* resolved dependencies, from another predecessor of the revision.
C22_NormalizedDependencies == Built => \A i \in RevisionsInMap : Normalized(i)

\* c is down from b, b is down from a, and c keeps its dependency on a
C22_AncestorKept ==
    /\ Built
    /\ \E i \in RevisionsInMap :
        /\ revs[i].revision = "c"
        /\ revs[i].down_revision = <<"b">>
        /\ revs[i]._normalized_resolved_dependencies = <<"a">>
        /\ "a" \in VersionedView["b"]

-----------------------------------------------------------------------------
(* C23: where the build spreads the branch labels of a revision *)

\* the branch labels of the revision with the id x in the built map
EffectiveLabels(x) == revs[map_[x]].branch_labels

Declares(x) == Range(Record(x)._orig_branch_labels)

LabelsReach(view) ==
    \A x \in RevisionIds : \A y \in Descendants({x}, view) :
        Declares(x) \subseteq EffectiveLabels(y)

\* a label on y is declared by a revision that y descends from or leads to
\* along down_revision
LabelsStayInLineage ==
    \A y \in RevisionIds : \A l \in EffectiveLabels(y) :
        \E x \in Lineage({y}, VersionedView) : l \in Declares(x)

\* C23 as stated: after the build every revision reached from a revision R
\* along _all_nextrev (its versioned successors and its dependents) carries
\* every branch label that R declares.
C23_LabelsReachAllDescendants == Built => LabelsReach(FullView)

\* C23 as the code has it: after the build every revision reached from R
\* along nextrev (versioned successors only) carries every branch label
\* that R declares, and a revision carries no label from outside its
\* down_revision lineage, so that a revision which only depends on R does
\* not get R's labels.
C23_LabelsReachVersionedDescendants ==
    Built => LabelsReach(VersionedView) /\ LabelsStayInLineage

\* a declares lbl, b is down from a and carries it, c only depends on a and
\* does not
C23_DependentWithoutLabel ==
    /\ Built
    /\ Declares("a") = {"lbl"}
    /\ "a" \in VersionedView["b"]
    /\ "lbl" \in EffectiveLabels("b")
    /\ VersionedView["c"] = {}
    /\ FullView["c"] = {"a"}
    /\ "lbl" \notin EffectiveLabels("c")

-----------------------------------------------------------------------------
(* C24: topological_sort of a collection of revisions *)

Sorted == op.name = "topological_sort"

\* the ids of the revisions handed to topological_sort
SortedIds == RevIds(revs, op.revisions)

IsPermutation(s, S) == Range(s) = S /\ Len(s) = Cardinality(S)

AncestorsFirst(s) ==
    \A i, j \in 1..Len(s) :
        s[i] # s[j] /\ s[i] \in Ancestors(FullView[s[j]], FullView) => i < j

\* C24: topological_sort(S) returns a permutation of the ids of S in which
\* a comes before b whenever a is an ancestor of b along down revisions and
\* resolved dependencies, also when the path from b to a leaves S or uses a
\* dependency that is declared by branch label.
C24_TopologicalSortSound ==
    Sorted => /\ op.raised = ""
              /\ IsPermutation(op.value, SortedIds)
              /\ AncestorsFirst(op.value)

\* a is down from b and b from c: sorting a and c without b puts a first
C24_SkippedMiddle ==
    /\ Sorted
    /\ ~HasCycle(FullView)
    /\ "b" \in VersionedView["a"]
    /\ "c" \in VersionedView["b"]
    /\ SortedIds = {"a", "c"}
    /\ op.value = <<"a", "c">>

-----------------------------------------------------------------------------
(* C25: the traversal in check mode *)

Traversed == op.name = "_iterate_related_revisions"

\* the revisions the traversal starts from
Starts == Range(op.targets)

\* i |-> the revisions that the edge selector of the call leads to from i
Edges ==
    [i \in RevisionsInMap |->
        {map_[x] : x \in Range(fn_ids(revs, op.fn, i, op.targets))}]

Reach(i) == Closure(Edges, {i})

\* two starts both reach a revision that is no start
OverlapOnNonStart ==
    \E s, t \in Starts : s # t /\ (Reach(s) \cap Reach(t)) \ Starts # {}

\* one start is reached from another
StartReachesStart == \E s, t \in Starts : s # t /\ t \in Reach(s)

\* C25 as stated: in check mode the traversal raises RevisionError when two
\* starts both reach a revision that is not a start, and raises nothing
\* when what the starts reach in common is only starts, or nothing.
C25_ErrorOnSharedNonStart ==
    Traversed => (op.raised = "RevisionError" <=> OverlapOnNonStart)

\* what the walk from the i-th start visits that no earlier start reached
FirstVisited(i) ==
    Reach(op.targets[i]) \ UNION {Reach(op.targets[j]) : j \in 1..(i - 1)}

\* what the walk from the i-th start arrives at: the start, and where the
\* edges of the revisions it visits lead
Arrived(i) == {op.targets[i]} \cup UNION {Edges[n] : n \in FirstVisited(i)}

WalkArrivesAtStart ==
    \E i \in 1..Len(op.targets) : (Arrived(i) \cap Starts) \ {op.targets[i]} # {}

\* C25 as the code has it: in check mode the traversal raises RevisionError
\* exactly when the walk from one start arrives at another start, which in
\* a map without a cycle is exactly when one start is reached from another
\* start; starts that only share revisions which are no starts raise
\* nothing.
C25_ErrorOnStartReached ==
    Traversed => /\ op.raised \in {"", "RevisionError"}
                 /\ op.raised = "RevisionError" <=> WalkArrivesAtStart
                 /\ WalkArrivesAtStart => StartReachesStart
                 /\ ~HasCycle(FullView) /\ StartReachesStart => WalkArrivesAtStart

\* two starts that share a revision which is no start, walked to the end
C25_SharedWithoutError ==
    /\ Traversed
    /\ OverlapOnNonStart
    /\ ~StartReachesStart
    /\ op.raised = ""
    /\ Len(op.value) = 3

-----------------------------------------------------------------------------
(* C26: what normalizing the dependencies does to reachability *)

\* x |-> the ids of _normalized_down_revisions of the revision x
NormalizedView ==
    [x \in RevisionIds |-> Range(_normalized_down_revisions(revs[map_[x]]))]

\* x |-> the ids of _all_down_revisions of the revision x
ResolvedView ==
    [x \in RevisionIds |-> Range(_all_down_revisions(revs[map_[x]]))]

SameAncestors(x) ==
    Ancestors({x}, NormalizedView) = Ancestors({x}, ResolvedView)

\* C26: in a built map every revision has the same ancestors along down
\* revisions and normalized dependencies as along down revisions and
\* resolved dependencies.
C26_NormalizationKeepsAncestors == Built => \A x \in RevisionIds : SameAncestors(x)

\* b and c are down from each other and both depend on e: each loses the
\* dependency to the other, and e is no ancestor of either any more
C26_DependencyLost ==
    /\ Built
    /\ generator = CycleDependencyProvider
    /\ "e" \in Ancestors({"b"}, ResolvedView)
    /\ "e" \notin Ancestors({"b"}, NormalizedView)

-----------------------------------------------------------------------------
(* C27: a downgrade leaves no applied revision without what it needs *)

\* the revisions that are applied before the downgrade: upper and its
\* ancestors
Applied == Ancestors(IdsNamed(op.upper), FullView)

Yielded == Range(YieldedIds)

NoDependentStranded ==
    \A r \in Yielded : \A x \in Applied :
        r \in Ancestors({x}, FullView) => x \in Yielded

\* C27: a successful downgrade yields only applied revisions, and with a
\* revision it yields every applied revision that has it as an ancestor
\* along down revisions and resolved dependencies.
C27_DowngradeStrandsNoDependent ==
    Downgraded => Yielded \subseteq Applied /\ NoDependentStranded
\* over the cycle of b and c, which both depend on e: downgrading from c and
\* e with implicit_base yields e alone and leaves b and c, which depend on it
C27_DependencyDropped ==
    /\ Downgraded
    /\ generator = CycleDependencyProvider
    /\ op.upper = Tup(<<"c", "e">>)
    /\ op.implicit_base
    /\ YieldedIds = <<"e">>
    /\ {"b", "c"} \subseteq Applied

-----------------------------------------------------------------------------
(* C28: an upgrade yields what its revisions need *)

PredecessorsCovered ==
    \A y \in Yielded : FullView[y] \subseteq Yielded \cup Current

\* C28: a successful upgrade with inclusive false, whatever implicit_base
\* is, yields with each revision every revision it is down from or depends
\* on, unless that one is already applied (lower or an ancestor of lower),
\* and yields no revision that is already applied.
C28_UpgradeClosedUnderPredecessors ==
    Upgraded /\ ~op.inclusive => PredecessorsCovered /\ Yielded \cap Current = {}

\* the scenario's upgrade from B to D without implicit_base yields D alone,
\* without F that D depends on and without E
C28_DependencyLeftOut ==
    /\ Upgraded
    /\ generator = ScenarioProvider
    /\ Is(op.upper, "D") /\ Is(op.lower, "B")
    /\ ~op.inclusive /\ ~op.implicit_base
    /\ YieldedIds = <<"D">>
    /\ "F" \in FullView["D"] \ Current

-----------------------------------------------------------------------------
(* C29: add_revision that fails *)

\* the step is a call of add_revision
AddCalled == built = "built" /\ op'.name = "add_revision" /\ op.raised = ""

\* a branch label of the new revision is an id or a label of the map
LabelCollides ==
    \E l \in Range(op'.revision._orig_branch_labels) : l \in DOMAIN map_

\* the new revision is down from or depends on an id that is not in the map
RefersToMissing ==
    \E d \in Range(op'.revision.down_revision) \cup Range(op'.revision.dependencies) :
        d \notin DOMAIN map_

AddFailed ==
    /\ AddCalled
    /\ \/ op'.raised = "RevisionError" /\ LabelCollides
       \/ op'.raised = "KeyError" /\ RefersToMissing

MapAsBefore ==
    /\ UNCHANGED <<map_, heads, _real_heads, bases, _real_bases>>
    /\ \A i \in 1..Len(revs) : revs'[i] = revs[i]

\* C29: a call of add_revision that fails because a branch label of the new
\* revision is taken, or because an id it is down from or depends on is not
\* in the map, leaves the map as it was before the call: the new id is not
\* in it, and heads, bases and the labels and edges of every revision are
\* unchanged.
C29_FailedAddLeavesMap == [][AddFailed => MapAsBefore]_vars

\* the first add_revision on a map, of the new id c, has failed, and c is a
\* key of the map
C29_FailedAddInMap ==
    /\ op.name = "add_revision"
    /\ op.raised \in {"RevisionError", "KeyError"}
    /\ Len(revs) = Len(generator) + 1
    /\ op.revision.revision = "c"
    /\ "c" \notin ProviderIds(generator)
    /\ "c" \in DOMAIN map_

-----------------------------------------------------------------------------
(* C30: add_revision and the build over the same records *)

\* the first add_revision on the built map has returned; it added a new id,
\* no key of the map before, whose down revisions and dependencies are ids
\* of the map
AddedFresh ==
    /\ AfterAdds
    /\ Len(revs) = Len(generator) + 1
    /\ ~op._replace
    /\ op.revision.revision \notin DOMAIN _revision_map(generator).map_
    /\ Range(op.revision.down_revision) \cup Range(op.revision.dependencies)
            \subseteq ProviderIds(generator)

\* the map built from the records of the provider and the added one
FromScratch == _revision_map(Append(generator, op.revision))

\* the revision with the id x is the same in both maps, but for the order
\* of its normalized dependencies
SameRevision(x) ==
    With(revs[map_[x]], LAMBDA added :
    With(FromScratch.revs[FromScratch.map_[x]], LAMBDA scratch :
        /\ added.branch_labels = scratch.branch_labels
        /\ added.nextrev = scratch.nextrev
        /\ added._all_nextrev = scratch._all_nextrev
        /\ Range(added._normalized_resolved_dependencies)
                = Range(scratch._normalized_resolved_dependencies)))

AgreesWithBuild ==
    /\ FromScratch.raised = ""
    /\ DOMAIN map_ = DOMAIN FromScratch.map_
    /\ \A x \in ProviderIds(generator) \cup {op.revision.revision} : SameRevision(x)
    /\ Range(heads) = Range(FromScratch.heads)
    /\ Range(_real_heads) = Range(FromScratch._real_heads)
    /\ Range(bases) = Range(FromScratch.bases)
    /\ Range(_real_bases) = Range(FromScratch._real_bases)

\* C30: after add_revision of a new revision whose predecessors are in the
\* map, every revision has the branch labels, nextrev, _all_nextrev and
\* normalized dependencies, and the map the heads, real heads, bases and
\* real bases, that building from the records and the new one gives; the
\* labels of the new revision do not reach a parent that the insertion
\* makes a branch point.
C30_AddAgreesWithBuild == AddedFresh => AgreesWithBuild

\* b is down from a; c, down from a and labelled lbl, is added: a carries
\* lbl, which the build over a, b, c does not give it
C30_LabelOnNewBranchPoint ==
    /\ AddedFresh
    /\ generator = ChainProvider
    /\ op.revision.revision = "c"
    /\ op.revision.down_revision = <<"a">>
    /\ op.revision._orig_branch_labels = <<"lbl">>
    /\ "lbl" \in revs[map_["a"]].branch_labels
    /\ "lbl" \notin FromScratch.revs[FromScratch.map_["a"]].branch_labels

=============================================================================
